---- MODULE Spec2Model ----
(***************************************************************************)
(* Model of ODRouter (orange-dragonfly-router): registration of route      *)
(* patterns, their compilation into matchers, and the resolution of a      *)
(* path and a method against the ordered route table.                      *)
(*                                                                         *)
(* JavaScript strings are sequences of one-character strings.  A compiled  *)
(* RegExp is the sequence of atoms of its source (a literal character, or  *)
(* one of the three capture groups register() writes) and its "i" flag.    *)
(***************************************************************************)
EXTENDS Integers, Sequences, FiniteSets, TLC

VARIABLES routes, defaultRouteObject, options, registeredDefault, replacedDefault,
          last, held, process

vars == <<routes, defaultRouteObject, options, registeredDefault, replacedDefault,
          last, held, process>>

-----------------------------------------------------------------------------
(* JavaScript values *)

\* null and undefined, as payload values
JSNull == "<null>"
JSUndefined == "<undefined>"

\* a string parameter value / a number parameter value
StrVal(s) == [isInt |-> FALSE, n |-> 0, s |-> s]
IntVal(n) == [isInt |-> TRUE, n |-> n, s |-> <<>>]

-----------------------------------------------------------------------------
(* String primitives *)

LowerChars == <<"a","b","c","d","e","f","g","h","i","j","k","l","m",
                "n","o","p","q","r","s","t","u","v","w","x","y","z">>
UpperChars == <<"A","B","C","D","E","F","G","H","I","J","K","L","M",
                "N","O","P","Q","R","S","T","U","V","W","X","Y","Z">>
DigitChars == <<"0","1","2","3","4","5","6","7","8","9">>

Range(f) == {f[i] : i \in DOMAIN f}

Digits == Range(DigitChars)

\* characters "." does not match in a RegExp without the s flag
LineTerminators == {"\n", "\r"}

ToLowerChar(c) ==
  IF \E i \in DOMAIN UpperChars : UpperChars[i] = c
  THEN LowerChars[CHOOSE i \in DOMAIN UpperChars : UpperChars[i] = c]
  ELSE c

ToUpperChar(c) ==
  IF \E i \in DOMAIN LowerChars : LowerChars[i] = c
  THEN UpperChars[CHOOSE i \in DOMAIN LowerChars : LowerChars[i] = c]
  ELSE c

\* String.prototype.toLowerCase / toUpperCase
toLowerCase(s) == [i \in 1..Len(s) |-> ToLowerChar(s[i])]
toUpperCase(s) == [i \in 1..Len(s) |-> ToUpperChar(s[i])]

\* s.startsWith(t, at position p (1-based))
StartsWithAt(s, t, p) ==
  /\ p + Len(t) - 1 <= Len(s)
  /\ \A k \in 1..Len(t) : s[p + k - 1] = t[k]

startsWith(s, t) == StartsWithAt(s, t, 1)

endsWith(s, t) == Len(t) <= Len(s) /\ StartsWithAt(s, t, Len(s) - Len(t) + 1)

\* s.includes(t)
includes(s, t) == \E p \in 1..(Len(s) + 1) : StartsWithAt(s, t, p)

\* s.slice(a, -b)
sliceEnds(s, a, b) == SubSeq(s, a + 1, Len(s) - b)

\* array.includes(x)
arrayIncludes(arr, x) == \E i \in DOMAIN arr : arr[i] = x

\* parseInt(value, 10) on the text of a ([0-9]+) capture group; parseInt stops
\* at the first character that is not a digit
DigitValue(c) == (CHOOSE i \in DOMAIN DigitChars : DigitChars[i] = c) - 1

RECURSIVE parseIntFrom(_, _, _)
parseIntFrom(s, i, acc) ==
  IF i > Len(s) \/ s[i] \notin Digits THEN acc
  ELSE parseIntFrom(s, i + 1, acc * 10 + DigitValue(s[i]))

parseInt(s) == parseIntFrom(s, 1, 0)

-----------------------------------------------------------------------------
(* Objects: an object is the sequence of its own properties in the order   *)
(* Object.keys lists them.                                                 *)

EmptyObject == <<>>

\* a canonical array index ("0", "7", "15"; not "007"): such keys are listed
\* first, in ascending numeric order (indices of up to nine digits are modelled)
IsArrayIndex(key) ==
  /\ Len(key) >= 1
  /\ Len(key) <= 9
  /\ \A i \in DOMAIN key : key[i] \in Digits
  /\ (Len(key) = 1 \/ key[1] # "0")

ProtoKey == <<"_","_","p","r","o","t","o","_","_">>

HasKey(obj, key) == \E i \in DOMAIN obj : obj[i].k = key

\* where a new key goes
InsertAt(obj, key) ==
  IF IsArrayIndex(key)
  THEN Cardinality({i \in DOMAIN obj :
                      IsArrayIndex(obj[i].k) /\ parseInt(obj[i].k) < parseInt(key)}) + 1
  ELSE Len(obj) + 1

\* obj[key] = value, for a primitive value
ObjSet(obj, key, value) ==
  IF key = ProtoKey THEN obj
  ELSE IF HasKey(obj, key)
  THEN [i \in DOMAIN obj |-> IF obj[i].k = key THEN [k |-> key, v |-> value] ELSE obj[i]]
  ELSE LET at == InsertAt(obj, key)
       IN SubSeq(obj, 1, at - 1) \o <<[k |-> key, v |-> value]>> \o SubSeq(obj, at, Len(obj))

ObjKeys(obj) == [i \in DOMAIN obj |-> obj[i].k]

ObjGet(obj, key) == obj[CHOOSE i \in DOMAIN obj : obj[i].k = key].v

-----------------------------------------------------------------------------
(* Regular expressions *)

\* the atoms of a RegExp source written by register()
Lit(c) == [t |-> "lit", c |-> c, sep |-> <<>>]
\* (mutant) the integer group accepts any character
IntegerGroupAnything == [t |-> "greedy", c |-> "", sep |-> <<>>]
IntegerGroup == [t |-> "int", c |-> "", sep |-> <<>>]
GreedyGroup == [t |-> "greedy", c |-> "", sep |-> <<>>]
SegmentGroup(sep) == [t |-> "seg", c |-> "", sep |-> sep]

\* characters a placeholder may hold between its braces
NameChars == Range(LowerChars) \cup Range(UpperChars) \cup Digits
             \cup {"#", "+", "_", ".", "-"}

\* first position at or after i of a character outside NameChars
RECURSIVE NameRunEnd(_, _)
NameRunEnd(s, i) ==
  IF i > Len(s) \/ s[i] \notin NameChars THEN i ELSE NameRunEnd(s, i + 1)

\* pathPattern.match(/{[#+a-zA-Z0-9_.-]+}/g): the placeholders, left to right
\* (the empty sequence stands for null)
RECURSIVE matchPathParamsFrom(_, _)
matchPathParamsFrom(s, i) ==
  IF i > Len(s) THEN <<>>
  ELSE IF s[i] = "{"
  THEN LET j == NameRunEnd(s, i + 1)
       IN IF j > i + 1 /\ j <= Len(s) /\ s[j] = "}"
          THEN <<SubSeq(s, i, j)>> \o matchPathParamsFrom(s, j + 1)
          ELSE matchPathParamsFrom(s, i + 1)
  ELSE matchPathParamsFrom(s, i + 1)

EXTRACT_PATH_PARAMS(s) == matchPathParamsFrom(s, 1)

\* every character of the value becomes an atom matching that character
_escapeRegex(value) == [i \in 1..Len(value) |-> Lit(value[i])]

_buildSegmentPattern(opts) == SegmentGroup(opts.separator)

\* pattern.replace(find, by): the first occurrence only
replaceFirst(pattern, find, by) ==
  LET hits == {p \in 1..(Len(pattern) - Len(find) + 1) :
                 \A k \in 1..Len(find) : pattern[p + k - 1] = find[k]}
  IN IF hits = {} THEN pattern
     ELSE LET p == CHOOSE q \in hits : \A r \in hits : q <= r
          IN SubSeq(pattern, 1, p - 1) \o by \o SubSeq(pattern, p + Len(find), Len(pattern))

\* canonical comparison of two characters under the pattern's flags
CharMatches(a, b, ignoreCase) ==
  IF ignoreCase THEN ToUpperChar(a) = ToUpperChar(b) ELSE a = b

\* the literal text lit is matched at position p of path
LiteralAt(path, lit, p, ignoreCase) ==
  /\ p + Len(lit) - 1 <= Len(path)
  /\ \A k \in 1..Len(lit) : CharMatches(path[p + k - 1], lit[k], ignoreCase)

\* one repetition of a group's body consumes path[p]
GroupCharOk(atom, path, p, ignoreCase) ==
  CASE atom.t = "int" -> path[p] \in Digits
    [] atom.t = "greedy" -> path[p] \notin LineTerminators
    [] atom.t = "seg" -> /\ ~LiteralAt(path, atom.sep, p, ignoreCase)
                         /\ path[p] \notin LineTerminators
    [] OTHER -> FALSE

NoMatch == [ok |-> FALSE, groups |-> <<>>]

\* backtracking match of atoms[k..] against path[p..], anchored at the end;
\* a group is greedy: the longest run for which the rest matches
RECURSIVE MatchFrom(_, _, _, _, _)
MatchFrom(atoms, k, path, p, ignoreCase) ==
  IF k > Len(atoms) THEN [ok |-> p = Len(path) + 1, groups |-> <<>>]
  ELSE IF atoms[k].t = "lit"
  THEN IF p <= Len(path) /\ CharMatches(path[p], atoms[k].c, ignoreCase)
       THEN MatchFrom(atoms, k + 1, path, p + 1, ignoreCase)
       ELSE NoMatch
  ELSE LET ends == {e \in (p + 1)..(Len(path) + 1) :
                      /\ \A q \in p..(e - 1) : GroupCharOk(atoms[k], path, q, ignoreCase)
                      /\ MatchFrom(atoms, k + 1, path, e, ignoreCase).ok}
       IN IF ends = {} THEN NoMatch
          ELSE LET e == CHOOSE x \in ends : \A y \in ends : y <= x
               IN [ok |-> TRUE,
                   groups |-> <<SubSeq(path, p, e - 1)>>
                                \o MatchFrom(atoms, k + 1, path, e, ignoreCase).groups]

\* path.match(new RegExp(`^${source}$`, flags)): ok, and the capture groups
RegExpMatch(path, re) == MatchFrom(re.source, 1, path, 1, re.ignoreCase)

-----------------------------------------------------------------------------
(* Router state *)

\* an absent value (null) and a present one
Null == <<>>
Some(x) == <<x>>

DEFAULT_OPTIONS == [caseSensitive |-> FALSE, separator |-> <<"/">>]

WildcardMethod == <<"*">>

DuplicationError(pathPattern) ==
  [message |-> "Parameters duplication in the route", pattern |-> pathPattern]
SeparatorError ==
  [message |-> "Option \"separator\" must not be empty", pattern |-> <<>>]
NotFoundError ==
  [message |-> "Route not found, default route is not defined", pattern |-> <<>>]
NoError == [message |-> "", pattern |-> <<>>]

\* (mutant) no validator
separatorInvalidNever(value) == FALSE

\* OPTION_VALIDATORS.separator: TRUE when it throws
separatorInvalid(value) == value = <<>>

\* the public fields of a record, copied
_cloneRouteRecord(route) ==
  [pattern |-> route.pattern,
   pathPattern |-> route.pathPattern,
   params |-> route.params,
   methods |-> route.methods,
   integers |-> route.integers,
   routeObject |-> route.routeObject]

\* typeof route.pattern === 'string'
StringPattern(text) == [isString |-> TRUE, text |-> text, source |-> <<>>, ignoreCase |-> FALSE]
RegExpPattern(source, ignoreCase) ==
  [isString |-> FALSE, text |-> <<>>, source |-> source, ignoreCase |-> ignoreCase]

-----------------------------------------------------------------------------
(* register *)

\* the name of a placeholder and its kind
placeholderName(pName) ==
  IF startsWith(pName, <<"{", "#">>) \/ startsWith(pName, <<"{", "+">>)
  THEN sliceEnds(pName, 2, 1)
  ELSE sliceEnds(pName, 1, 1)

\* (mutant) an integer placeholder is left as text in the expression
placeholderGroupIntegerAsText(pName, opts) ==
  IF startsWith(pName, <<"{", "#">>) THEN Lit("#")
  ELSE IF startsWith(pName, <<"{", "+">>) THEN GreedyGroup
  ELSE _buildSegmentPattern(opts)

placeholderGroup(pName, opts) ==
  IF startsWith(pName, <<"{", "#">>) THEN IntegerGroup
  ELSE IF startsWith(pName, <<"{", "+">>) THEN GreedyGroup
  ELSE _buildSegmentPattern(opts)

\* (mutant) no duplicate check, as in the first edition
isDuplicateNever(params, name) == FALSE

\* params.includes(pName): the duplicate check of the loop
isDuplicate(params, name) == arrayIncludes(params, name)

\* the loop over paramNames, from the k-th placeholder on; acc holds the
\* locals pattern, params, integers, integerParams, and threw once the
\* duplication error is thrown
RECURSIVE compileFrom(_, _, _, _)
compileFrom(paramNames, k, acc, opts) ==
  IF k > Len(paramNames) THEN acc
  ELSE LET pName == paramNames[k]
           isInteger == startsWith(pName, <<"{", "#">>)
           pattern == replaceFirst(acc.pattern, _escapeRegex(pName),
                                   <<placeholderGroup(pName, opts)>>)
           name == placeholderName(pName)
       IN IF isDuplicate(acc.params, name)
          THEN [acc EXCEPT !.threw = TRUE]
          ELSE compileFrom(paramNames, k + 1,
                 [pattern |-> pattern,
                  params |-> Append(acc.params, name),
                  integers |-> IF isInteger THEN Append(acc.integers, name)
                               ELSE acc.integers,
                  integerParams |-> Append(acc.integerParams, isInteger),
                  threw |-> FALSE],
                 opts)

compile(pathPattern, opts) ==
  compileFrom(EXTRACT_PATH_PARAMS(pathPattern), 1,
              [pattern |-> _escapeRegex(pathPattern), params |-> <<>>,
               integers |-> <<>>, integerParams |-> <<>>, threw |-> FALSE],
              opts)

\* methods.map(v => v.toUpperCase()), after wrapping a single method
normalizeMethods(methodsArg) ==
  LET methods == IF methodsArg.isArray THEN methodsArg.list ELSE <<methodsArg.single>>
  IN [i \in 1..Len(methods) |-> toUpperCase(methods[i])]

\* (mutant) no record is flagged as a proxy at registration
isProxyPatternNever(pathPattern) == FALSE

\* pathPattern.includes('{+')
isProxyPattern(pathPattern) == includes(pathPattern, <<"{", "+">>)

\* the record register() pushes
newRouteRecord(pathPattern, methodsArg, routeObject, opts) ==
  LET methods == normalizeMethods(methodsArg)
      paramNames == EXTRACT_PATH_PARAMS(pathPattern)
      c == compile(pathPattern, opts)
  IN [pattern |-> IF paramNames # <<>>
                  THEN RegExpPattern(c.pattern, ~opts.caseSensitive)
                  ELSE StringPattern(pathPattern),
      pathPattern |-> pathPattern,
      params |-> c.params,
      methods |-> methods,
      integers |-> c.integers,
      routeObject |-> routeObject,
      staticLowerCasePattern |-> IF paramNames # <<>> THEN Null
                                 ELSE Some(toLowerCase(pathPattern)),
      integerParams |-> c.integerParams,
      hasWildcardMethod |-> arrayIncludes(methods, WildcardMethod),
      isProxy |-> isProxyPattern(pathPattern)]

registerThrows(pathPattern, opts) == compile(pathPattern, opts).threw

-----------------------------------------------------------------------------
(* route *)

\* (mutant) a single trailing separator is removed
trimTrailingOnce(path, separator) ==
  IF endsWith(path, separator) /\ Len(path) > Len(separator)
  THEN SubSeq(path, 1, Len(path) - Len(separator))
  ELSE path

\* (mutant) one character at a time, as in the edition before 1.0.1
RECURSIVE trimTrailingByChar(_, _)
trimTrailingByChar(path, separator) ==
  IF endsWith(path, separator) /\ Len(path) > 1
  THEN trimTrailingByChar(SubSeq(path, 1, Len(path) - 1), separator)
  ELSE path

\* while (path.endsWith(separator) && path.length > separatorLength)
\*   path = path.slice(0, -separatorLength)
\* (mutant) nothing is removed
trimTrailingNever(path, separator) == path

RECURSIVE trimTrailing(_, _)
trimTrailing(path, separator) ==
  IF endsWith(path, separator) /\ Len(path) > Len(separator)
  THEN trimTrailing(SubSeq(path, 1, Len(path) - Len(separator)), separator)
  ELSE path

\* (mutant) a literal pattern is compared in lower case whatever the option
routeMatchOfFolded(route, path, caseSensitive) ==
  IF route.pattern.isString
  THEN [ok |-> route.staticLowerCasePattern = Some(toLowerCase(path)), groups |-> <<>>]
  ELSE RegExpMatch(path, route.pattern)

\* (mutant) a RegExp is matched with the "i" flag the option asks for now
routeMatchOfLive(route, path, caseSensitive) ==
  IF route.pattern.isString
  THEN [ok |-> IF caseSensitive THEN route.pattern.text = path
               ELSE route.staticLowerCasePattern = Some(toLowerCase(path)),
        groups |-> <<>>]
  ELSE RegExpMatch(path, [route.pattern EXCEPT !.ignoreCase = ~caseSensitive])

\* routeMatch of one record: matched, and the match array's groups
\* (none for a literal pattern, whose routeMatch is a boolean)
routeMatchOf(route, path, caseSensitive) ==
  IF route.pattern.isString
  THEN [ok |-> IF caseSensitive THEN route.pattern.text = path
               ELSE route.staticLowerCasePattern = Some(toLowerCase(path)),
        groups |-> <<>>]
  ELSE RegExpMatch(path, route.pattern)

\* (mutant) the wildcard is not honoured
methodEligibleListedOnly(route, method) == arrayIncludes(route.methods, method)

\* route.hasWildcardMethod || route.methods.includes(method)
methodEligible(route, method) ==
  route.hasWildcardMethod \/ arrayIncludes(route.methods, method)

\* the params object filled from the match array
RECURSIVE paramsFrom(_, _, _, _)
paramsFrom(route, groups, i, params) ==
  IF i > Len(groups) THEN params
  ELSE paramsFrom(route, groups, i + 1,
         ObjSet(params, route.params[i],
                IF route.integerParams[i] THEN IntVal(parseInt(groups[i]))
                ELSE StrVal(groups[i])))

\* (mutant) a proxy record is returned as soon as it matches
neverDeferred(route) == FALSE

\* a proxy record is deferred rather than returned
isDeferred(route) == route.isProxy

\* (mutant) the latest deferred match is kept
keepDeferredLatest(deferred, candidate) == candidate

\* (mutant) the first deferred record is kept with the params of the latest
keepDeferredParamsLatest(deferred, candidate) ==
  IF deferred = Null THEN candidate
  ELSE Some([route |-> deferred[1].route, params |-> candidate[1].params])

\* the first deferred match is kept
keepDeferred(deferred, candidate) == IF deferred = Null THEN candidate ELSE deferred

\* (mutant) the result carries the path in lower case and the method as given
matchedResultFolded(path, method, params, route) ==
  [threw |-> FALSE, error |-> NoError,
   path |-> toLowerCase(path), method |-> toLowerCase(method), params |-> params,
   route |-> Some(_cloneRouteRecord(route)),
   route_object |-> route.routeObject, is_default |-> FALSE]

matchedResult(path, method, params, route) ==
  [threw |-> FALSE, error |-> NoError,
   path |-> path, method |-> method, params |-> params,
   route |-> Some(_cloneRouteRecord(route)),
   route_object |-> route.routeObject, is_default |-> FALSE]

\* (mutant) the default result is not flagged
defaultResultUnflagged(path, method, routeObject) ==
  [threw |-> FALSE, error |-> NoError,
   path |-> path, method |-> method, params |-> EmptyObject,
   route |-> Null, route_object |-> routeObject, is_default |-> FALSE]

defaultResult(path, method, routeObject) ==
  [threw |-> FALSE, error |-> NoError,
   path |-> path, method |-> method, params |-> EmptyObject,
   route |-> Null, route_object |-> routeObject, is_default |-> TRUE]

\* the throw: an error and no result
notFound(path, method) ==
  [threw |-> TRUE, error |-> NotFoundError,
   path |-> <<>>, method |-> <<>>, params |-> EmptyObject,
   route |-> Null, route_object |-> JSNull, is_default |-> FALSE]

\* (mutant) a truthiness test, as in the first edition
hasDefaultTruthy(routeObject) == routeObject \notin {JSNull, JSUndefined, ""}

\* this._defaultRouteObject !== null
hasDefault(routeObject) == routeObject # JSNull

\* what follows the loop
afterLoop(path, method, deferred, dflt) ==
  IF deferred # Null
  THEN matchedResult(path, method, deferred[1].params, deferred[1].route)
  ELSE IF hasDefault(dflt) THEN defaultResult(path, method, dflt)
  ELSE notFound(path, method)

\* the loop over this._routes from the i-th record on; deferred holds
\* deferredProxyMatch and deferredProxyParams
RECURSIVE routeLoop(_, _, _, _, _, _, _)
routeLoop(rs, i, path, method, caseSensitive, deferred, dflt) ==
  IF i > Len(rs) THEN afterLoop(path, method, deferred, dflt)
  ELSE LET route == rs[i]
           routeMatch == routeMatchOf(route, path, caseSensitive)
       IN IF routeMatch.ok /\ methodEligible(route, method)
          THEN LET params == paramsFrom(route, routeMatch.groups, 1, EmptyObject)
               IN IF isDeferred(route)
                  THEN routeLoop(rs, i + 1, path, method, caseSensitive,
                                 keepDeferred(deferred,
                                              Some([route |-> route, params |-> params])),
                                 dflt)
                  ELSE matchedResult(path, method, params, route)
          ELSE routeLoop(rs, i + 1, path, method, caseSensitive, deferred, dflt)

\* route(path, method) on a router with the given table, default and options
route(rs, dflt, opts, path, method) ==
  routeLoop(rs, 1, trimTrailing(path, opts.separator), toUpperCase(method),
            opts.caseSensitive, Null, dflt)

-----------------------------------------------------------------------------
(* route of the earlier edition, which keeps the public fields of a record  *)
(* only and derives the rest at each request                               *)

\* the record the earlier register() pushes
earlierRecord(rec) ==
  [pattern |-> rec.pattern,
   pathPattern |-> rec.pathPattern,
   params |-> rec.params,
   methods |-> rec.methods,
   integers |-> rec.integers,
   routeObject |-> rec.routeObject]

\* route.pathPattern.includes('{+')
_isProxyRoute(rec) == includes(rec.pathPattern, <<"{", "+">>)

\* isMatch of a literal pattern, compared in lower case at the request unless
\* caseSensitive; match of a RegExp
routeMatchOfEarlier(rec, path, caseSensitive) ==
  IF rec.pattern.isString
  THEN [ok |-> IF caseSensitive THEN rec.pattern.text = path
               ELSE toLowerCase(rec.pattern.text) = toLowerCase(path),
        groups |-> <<>>]
  ELSE RegExpMatch(path, rec.pattern)

\* groups.forEach: a value is parsed when its name is among route.integers
RECURSIVE paramsFromEarlier(_, _, _, _)
paramsFromEarlier(rec, groups, i, params) ==
  IF i > Len(groups) THEN params
  ELSE paramsFromEarlier(rec, groups, i + 1,
         ObjSet(params, rec.params[i],
                IF arrayIncludes(rec.integers, rec.params[i])
                THEN IntVal(parseInt(groups[i]))
                ELSE StrVal(groups[i])))

\* the loop over this._routes and what follows it
RECURSIVE routeLoopEarlier(_, _, _, _, _, _, _)
routeLoopEarlier(rs, i, path, method, caseSensitive, deferred, dflt) ==
  IF i > Len(rs)
  THEN IF deferred # Null
       THEN [threw |-> FALSE, error |-> NoError,
             path |-> path, method |-> method, params |-> deferred[1].params,
             route |-> Some(deferred[1].route),
             route_object |-> deferred[1].route.routeObject, is_default |-> FALSE]
       ELSE IF dflt # JSNull
       THEN [threw |-> FALSE, error |-> NoError,
             path |-> path, method |-> method, params |-> EmptyObject,
             route |-> Null, route_object |-> dflt, is_default |-> TRUE]
       ELSE [threw |-> TRUE, error |-> NotFoundError,
             path |-> <<>>, method |-> <<>>, params |-> EmptyObject,
             route |-> Null, route_object |-> JSNull, is_default |-> FALSE]
  ELSE LET rec == rs[i]
           match == routeMatchOfEarlier(rec, path, caseSensitive)
           params == paramsFromEarlier(rec, match.groups, 1, EmptyObject)
       IN IF match.ok /\ (arrayIncludes(rec.methods, method)
                           \/ arrayIncludes(rec.methods, WildcardMethod))
          THEN IF _isProxyRoute(rec)
               THEN routeLoopEarlier(rs, i + 1, path, method, caseSensitive,
                                     IF deferred = Null
                                     THEN Some([route |-> rec, params |-> params])
                                     ELSE deferred,
                                     dflt)
               ELSE [threw |-> FALSE, error |-> NoError,
                     path |-> path, method |-> method, params |-> params,
                     route |-> Some(rec),
                     route_object |-> rec.routeObject, is_default |-> FALSE]
          ELSE routeLoopEarlier(rs, i + 1, path, method, caseSensitive, deferred, dflt)

\* route(path, method) of the earlier edition
routeEarlier(rs, dflt, opts, path, method) ==
  routeLoopEarlier(rs, 1, trimTrailing(path, opts.separator), toUpperCase(method),
                   opts.caseSensitive, Null, dflt)

-----------------------------------------------------------------------------
(* The router as a state machine.  last records the latest call: the       *)
(* operation, its arguments, whether it threw, and what route() returned.  *)
(* registeredDefault is a history variable: the argument of the latest     *)
(* registerDefault() call, Null while there was none.  replacedDefault is  *)
(* another: the default that call replaced.                                *)

MaxRoutes == 2

\* Objects handed out.  held is what the caller keeps of them: the array the
\* routes accessor returned last and the record of the result route() returned
\* last.  Each mutable part of a record (the record object, its RegExp, its
\* three arrays) has an address: owned by the router when it is the part of
\* the i-th record of the table itself, owned by the caller when it is a copy.
Components == {"record", "pattern", "params", "methods", "integers"}
Internal(i, c) == [owner |-> "router", slot |-> i, part |-> c]
Fresh(slot, c) == [owner |-> "caller", slot |-> slot, part |-> c]

\* The routers of a process, for the operations that concern more than one:
\* the _router static property of each class, the instances in the order of
\* their creation, and the options objects by address (address 0 is the
\* DEFAULT_OPTIONS constant, address n the _options object of the n-th
\* instance).  returned is a history: the instances init() returned, by the
\* class it was called on.  Where one router is concerned (the variables
\* routes, defaultRouteObject and options) process stays OneRouter.
Classes == {"ODRouter", "Sub"}

NoInstances ==
  [statics |-> [cls \in Classes |-> Null],
   heap |-> <<>>,
   optionObjects |-> <<DEFAULT_OPTIONS>>,
   returned |-> [cls \in Classes |-> {}]]

OneRouter == NoInstances

\* the options object at an address
optionsAtAddress(proc, a) == proc.optionObjects[a + 1]

\* this._router read on a class: its own property, else its parent's
staticRouter(proc, cls) ==
  IF proc.statics[cls] # Null THEN proc.statics[cls]
  ELSE IF cls = "Sub" THEN proc.statics["ODRouter"]
  ELSE Null

\* new cls(): empty table, null default, and a new options object with the
\* entries of DEFAULT_OPTIONS
constructIn(proc, cls) ==
  [proc EXCEPT
     !.heap = Append(@, [class |-> cls, routes |-> <<>>, defaultRouteObject |-> JSNull,
                         optionsAt |-> Len(proc.heap) + 1]),
     !.optionObjects = Append(@, optionsAtAddress(proc, 0))]

\* (mutant) init() creates a router at every call
initAlwaysNew(proc, cls) ==
  [constructIn(proc, cls) EXCEPT !.statics[cls] = Some(Len(proc.heap) + 1)]

\* cls.init(): the process after the call; the instance returned is the
\* class's _router
init(proc, cls) ==
  IF staticRouter(proc, cls) = Null
  THEN [constructIn(proc, cls) EXCEPT !.statics[cls] = Some(Len(proc.heap) + 1)]
  ELSE proc

\* the instances of a process are bounded
MaxInstances == 2

\* writes counts the caller's writes to the objects it holds
MaxWrites == 2

NothingHeld == [snapshot |-> Null, result |-> Null, writes |-> 0]

\* (mutant) the copy of the older edition, { ...route }: a new record object
\* around the same RegExp and arrays
cloneHandleShallow(rec, i, slot) ==
  [value |-> _cloneRouteRecord(rec),
   at |-> [c \in Components |-> IF c = "record" THEN Fresh(slot, c) ELSE Internal(i, c)]]

\* _cloneRouteRecord(route) as an object: a new record object, a new RegExp
\* and three new arrays (a string pattern is a primitive and has no identity)
cloneHandle(rec, i, slot) ==
  [value |-> _cloneRouteRecord(rec),
   at |-> [c \in Components |-> Fresh(slot, c)]]

\* the routes accessor: a new array of copies
snapshotOf(rs) ==
  [at |-> Fresh(0, "array"),
   items |-> [i \in DOMAIN rs |-> cloneHandle(rs[i], i, i)]]

\* the index of the record route() returns for the request, 0 when there is
\* none: the records' payloads are replaced by their indices
winnerIndex(rs, opts, path, method) ==
  LET tagged == [i \in DOMAIN rs |-> [rs[i] EXCEPT !.routeObject = i]]
      r == route(tagged, JSNull, opts, path, method)
  IN IF r.threw THEN 0 ELSE r.route_object

\* what a caller can do to a part of a record it holds: assign fields of the
\* record object, overwrite the entries of an array, recompile a RegExp
mutated(value, c) ==
  CASE c = "record" -> [value EXCEPT !.routeObject = "changed", !.pathPattern = <<"?">>]
    [] c = "pattern" -> [value EXCEPT !.pattern = RegExpPattern(<<Lit("?")>>, FALSE)]
    [] c = "params" -> [value EXCEPT !.params = [k \in DOMAIN value.params |-> <<"?">>]]
    [] c = "methods" -> [value EXCEPT !.methods = [k \in DOMAIN value.methods |-> <<"?">>]]
    [] c = "integers" -> [value EXCEPT !.integers = [k \in DOMAIN value.integers |-> <<"?">>]]

\* the same write, seen by the table when the address written is the router's
writeThrough(rs, address, c) ==
  IF address.owner = "router"
  THEN [rs EXCEPT ![address.slot] =
          [f \in DOMAIN rs[address.slot] |->
             IF f \in DOMAIN mutated(_cloneRouteRecord(rs[address.slot]), c)
             THEN mutated(_cloneRouteRecord(rs[address.slot]), c)[f]
             ELSE rs[address.slot][f]]]
  ELSE rs

\* method arguments of register(): a string or an array of strings
One(method) == [isArray |-> FALSE, single |-> method, list |-> <<>>]
Many(methods) == [isArray |-> TRUE, single |-> <<>>, list |-> methods]

Call(op, arg, method, flag, threw, error, result) ==
  [op |-> op, arg |-> arg, method |-> method, methodsArg |-> One(<<>>), flag |-> flag,
   option |-> "", threw |-> threw, error |-> error, result |-> result]

\* new ODRouter(options) with a valid separator
Constructed(opts) ==
  /\ routes = <<>>
  /\ defaultRouteObject = JSNull
  /\ options = opts
  /\ registeredDefault = Null
  /\ replacedDefault = Null
  /\ last = Call("new", opts.separator, <<>>, opts.caseSensitive, FALSE, NoError, Null)
  /\ held = NothingHeld
  /\ process = OneRouter

\* new ODRouter(options) with a separator the validator rejects: the
\* constructor throws after assigning _options, and no instance is handed out
ConstructionFailed(opts) ==
  /\ routes = <<>>
  /\ defaultRouteObject = JSNull
  /\ options = opts
  /\ registeredDefault = Null
  /\ replacedDefault = Null
  /\ last = Call("new", opts.separator, <<>>, opts.caseSensitive, TRUE, SeparatorError, Null)
  /\ held = NothingHeld
  /\ process = OneRouter

\* new ODRouter(options): the given options over the defaults, then validated
New(given) ==
  LET opts == [caseSensitive |-> IF given.caseSensitive = Null THEN DEFAULT_OPTIONS.caseSensitive
                                 ELSE given.caseSensitive[1],
               separator |-> IF given.separator = Null THEN DEFAULT_OPTIONS.separator
                             ELSE given.separator[1]]
  IN IF separatorInvalid(opts.separator) THEN ConstructionFailed(opts)
     ELSE Constructed(opts)

\* an instance exists: the constructor returned
Alive == ~(last.op = "new" /\ last.threw)

\* (mutant) the new record is put in front of the table
RegisterInFront(pathPattern, methodsArg, routeObject) ==
  /\ Len(routes) < MaxRoutes
  /\ ~registerThrows(pathPattern, options)
  /\ routes' = <<newRouteRecord(pathPattern, methodsArg, routeObject, options)>> \o routes
  /\ last' = [Call("register", pathPattern, <<>>, FALSE, FALSE, NoError, Null)
                EXCEPT !.methodsArg = methodsArg]
  /\ UNCHANGED <<defaultRouteObject, options, registeredDefault, replacedDefault, held, process>>

\* (mutant) the record is pushed before the duplication error is thrown
RegisterPushingFirst(pathPattern, methodsArg, routeObject) ==
  /\ Len(routes) < MaxRoutes
  /\ routes' = Append(routes, newRouteRecord(pathPattern, methodsArg, routeObject, options))
  /\ last' = [Call("register", pathPattern, <<>>, FALSE, registerThrows(pathPattern, options),
                    IF registerThrows(pathPattern, options)
                    THEN DuplicationError(pathPattern) ELSE NoError, Null)
                EXCEPT !.methodsArg = methodsArg]
  /\ UNCHANGED <<defaultRouteObject, options, registeredDefault, replacedDefault, held, process>>

Register(pathPattern, methodsArg, routeObject) ==
  /\ Len(routes) < MaxRoutes
  /\ IF registerThrows(pathPattern, options)
     THEN /\ last' = [Call("register", pathPattern, <<>>, FALSE, TRUE,
                           DuplicationError(pathPattern), Null)
                        EXCEPT !.methodsArg = methodsArg]
          /\ UNCHANGED <<routes, defaultRouteObject, options, registeredDefault, replacedDefault, held, process>>
     ELSE /\ routes' = Append(routes,
                              newRouteRecord(pathPattern, methodsArg, routeObject, options))
          /\ last' = [Call("register", pathPattern, <<>>, FALSE, FALSE, NoError, Null)
                        EXCEPT !.methodsArg = methodsArg]
          /\ UNCHANGED <<defaultRouteObject, options, registeredDefault, replacedDefault, held, process>>

\* (mutant) the first default registered stays
RegisterDefaultOnce(routeObject) ==
  /\ defaultRouteObject' = IF defaultRouteObject = JSNull THEN routeObject
                           ELSE defaultRouteObject
  /\ registeredDefault' = Some(routeObject)
  /\ replacedDefault' = Some(defaultRouteObject)
  /\ last' = Call("registerDefault", <<>>, <<>>, FALSE, FALSE, NoError, Null)
  /\ UNCHANGED <<routes, options, held, process>>

RegisterDefault(routeObject) ==
  /\ defaultRouteObject' = routeObject
  /\ registeredDefault' = Some(routeObject)
  /\ replacedDefault' = Some(defaultRouteObject)
  /\ last' = Call("registerDefault", <<>>, <<>>, FALSE, FALSE, NoError, Null)
  /\ UNCHANGED <<routes, options, held, process>>

\* (mutant) a new separator is written into the matchers of the table
setSeparatorRecompiling(op, value) ==
  IF separatorInvalid(value)
  THEN /\ last' = [Call(op, value, <<>>, FALSE, TRUE, SeparatorError, Null)
                     EXCEPT !.option = "separator"]
       /\ UNCHANGED <<routes, defaultRouteObject, options, registeredDefault, replacedDefault, held, process>>
  ELSE /\ options' = [options EXCEPT !.separator = value]
       /\ routes' = [i \in DOMAIN routes |->
                       [routes[i] EXCEPT !.pattern.source =
                          [k \in DOMAIN @ |-> IF @[k].t = "seg" THEN SegmentGroup(value)
                                               ELSE @[k]]]]
       /\ last' = [Call(op, value, <<>>, FALSE, FALSE, NoError, Null)
                     EXCEPT !.option = "separator"]
       /\ UNCHANGED <<defaultRouteObject, registeredDefault, replacedDefault, held, process>>

\* setOption('separator', value), under the name op
setSeparatorOption(op, value) ==
  IF separatorInvalid(value)
  THEN /\ last' = [Call(op, value, <<>>, FALSE, TRUE, SeparatorError, Null)
                     EXCEPT !.option = "separator"]
       /\ UNCHANGED <<routes, defaultRouteObject, options, registeredDefault, replacedDefault, held, process>>
  ELSE /\ options' = [options EXCEPT !.separator = value]
       /\ last' = [Call(op, value, <<>>, FALSE, FALSE, NoError, Null)
                     EXCEPT !.option = "separator"]
       /\ UNCHANGED <<routes, defaultRouteObject, registeredDefault, replacedDefault, held, process>>

SetOptionSeparator(value) == setSeparatorOption("setOption", value)

SetSeparator(value) == setSeparatorOption("setSeparator", value)

\* setOption('caseSensitive', value): no validator
SetOptionCaseSensitive(value) ==
  /\ options' = [options EXCEPT !.caseSensitive = value]
  /\ last' = [Call("setOption", <<>>, <<>>, value, FALSE, NoError, Null)
                EXCEPT !.option = "caseSensitive"]
  /\ UNCHANGED <<routes, defaultRouteObject, registeredDefault, replacedDefault, held, process>>

\* (mutant) the default is given out once
RouteForgetting(path, method) ==
  LET r == route(routes, defaultRouteObject, options, path, method)
  IN /\ last' = Call("route", path, method, FALSE, r.threw, r.error, Some(r))
     /\ defaultRouteObject' = IF ~r.threw /\ r.is_default THEN JSNull ELSE defaultRouteObject
     /\ UNCHANGED <<routes, options, registeredDefault, replacedDefault, held, process>>

Route(path, method) ==
  LET r == route(routes, defaultRouteObject, options, path, method)
  IN /\ last' = Call("route", path, method, FALSE, r.threw, r.error, Some(r))
     /\ UNCHANGED <<routes, defaultRouteObject, options, registeredDefault, replacedDefault, held, process>>

\* route(path, method) by a caller that keeps the record of the result
RouteKeeping(path, method) ==
  LET r == route(routes, defaultRouteObject, options, path, method)
      i == winnerIndex(routes, options, path, method)
  IN /\ last' = Call("route", path, method, FALSE, r.threw, r.error, Some(r))
     /\ held' = [held EXCEPT !.result = IF i = 0 THEN Null
                                         ELSE Some(cloneHandle(routes[i], i, 0))]
     /\ UNCHANGED <<routes, defaultRouteObject, options, registeredDefault, replacedDefault, process>>

\* the routes accessor
GetRoutes ==
  /\ held' = [held EXCEPT !.snapshot = Some(snapshotOf(routes))]
  /\ last' = Call("routes", <<>>, <<>>, FALSE, FALSE, NoError, Null)
  /\ UNCHANGED <<routes, defaultRouteObject, options, registeredDefault, replacedDefault, process>>

\* the caller removes the last element of the array it got from the accessor
MutateSnapshotArray ==
  /\ held.writes < MaxWrites
  /\ held.snapshot # Null
  /\ held.snapshot[1].items # <<>>
  /\ held' = [held EXCEPT !.snapshot[1].items =
                 SubSeq(held.snapshot[1].items, 1, Len(held.snapshot[1].items) - 1),
                           !.writes = @ + 1]
  /\ routes' = IF held.snapshot[1].at.owner = "router"
               THEN SubSeq(routes, 1, Len(routes) - 1) ELSE routes
  /\ last' = Call("mutate", <<>>, <<>>, FALSE, FALSE, NoError, Null)
  /\ UNCHANGED <<defaultRouteObject, options, registeredDefault, replacedDefault, process>>

\* the caller writes to part c of the k-th record of the array it holds
MutateSnapshotRecord(k, c) ==
  /\ held.writes < MaxWrites
  /\ held.snapshot # Null
  /\ k \in DOMAIN held.snapshot[1].items
  /\ c = "pattern" => ~held.snapshot[1].items[k].value.pattern.isString
  /\ held' = [held EXCEPT !.snapshot[1].items[k].value =
                 mutated(held.snapshot[1].items[k].value, c),
                           !.writes = @ + 1]
  /\ routes' = writeThrough(routes, held.snapshot[1].items[k].at[c], c)
  /\ last' = Call("mutate", <<>>, <<>>, FALSE, FALSE, NoError, Null)
  /\ UNCHANGED <<defaultRouteObject, options, registeredDefault, replacedDefault, process>>

\* the caller writes to part c of the record of the result it holds
MutateResultRecord(c) ==
  /\ held.writes < MaxWrites
  /\ held.result # Null
  /\ c = "pattern" => ~held.result[1].value.pattern.isString
  /\ held' = [held EXCEPT !.result[1].value = mutated(held.result[1].value, c),
                           !.writes = @ + 1]
  /\ routes' = writeThrough(routes, held.result[1].at[c], c)
  /\ last' = Call("mutate", <<>>, <<>>, FALSE, FALSE, NoError, Null)
  /\ UNCHANGED <<defaultRouteObject, options, registeredDefault, replacedDefault, process>>

\* cls.init() by a caller
InitCall(cls) ==
  LET after == init(process, cls)
      id == staticRouter(after, cls)[1]
  IN /\ Len(after.heap) <= MaxInstances
     /\ process' = [after EXCEPT !.returned[cls] = @ \cup {id}]
     /\ last' = [Call("init", <<>>, <<>>, FALSE, FALSE, NoError, Some(id))
                   EXCEPT !.option = cls]
     /\ UNCHANGED <<routes, defaultRouteObject, options, registeredDefault, replacedDefault, held>>

\* new cls() by a caller
NewCall(cls) ==
  /\ Len(process.heap) < MaxInstances
  /\ process' = constructIn(process, cls)
  /\ last' = [Call("new", <<>>, <<>>, FALSE, FALSE, NoError, Some(Len(process.heap) + 1))
                EXCEPT !.option = cls]
  /\ UNCHANGED <<routes, defaultRouteObject, options, registeredDefault, replacedDefault, held>>

\* register(), registerDefault() and setSeparator() on the id-th instance
RegisterOn(id, pathPattern, methodsArg, routeObject) ==
  /\ id \in DOMAIN process.heap
  /\ Len(process.heap[id].routes) < MaxRoutes
  /\ ~registerThrows(pathPattern, optionsAtAddress(process, process.heap[id].optionsAt))
  /\ process' = [process EXCEPT !.heap[id].routes =
                    Append(@, newRouteRecord(pathPattern, methodsArg, routeObject,
                                             optionsAtAddress(process, process.heap[id].optionsAt)))]
  /\ last' = Call("register", pathPattern, <<>>, FALSE, FALSE, NoError, Some(id))
  /\ UNCHANGED <<routes, defaultRouteObject, options, registeredDefault, replacedDefault, held>>

RegisterDefaultOn(id, routeObject) ==
  /\ id \in DOMAIN process.heap
  /\ process' = [process EXCEPT !.heap[id].defaultRouteObject = routeObject]
  /\ last' = Call("registerDefault", <<>>, <<>>, FALSE, FALSE, NoError, Some(id))
  /\ UNCHANGED <<routes, defaultRouteObject, options, registeredDefault, replacedDefault, held>>

SetSeparatorOn(id, value) ==
  /\ id \in DOMAIN process.heap
  /\ ~separatorInvalid(value)
  /\ process' = [process EXCEPT !.optionObjects[process.heap[id].optionsAt + 1].separator = value]
  /\ last' = [Call("setSeparator", value, <<>>, FALSE, FALSE, NoError, Some(id))
                EXCEPT !.option = "separator"]
  /\ UNCHANGED <<routes, defaultRouteObject, options, registeredDefault, replacedDefault, held>>

\* the operations, with their arguments drawn from the pools of in
NextWith(in) ==
  \/ \E p \in in.patterns, m \in in.methodArgs, o \in in.payloads : Register(p, m, o)
  \/ \E o \in in.defaults : RegisterDefault(o)
  \/ \E v \in in.separators \cup {<<>>} : SetOptionSeparator(v)
  \/ \E v \in in.separators \cup {<<>>} : SetSeparator(v)
  \/ \E v \in in.caseFlags : SetOptionCaseSensitive(v)
  \/ \E path \in in.paths, method \in in.methods : Route(path, method)

InitWith(in) ==
  \E cs \in in.caseFlags, sep \in in.separators :
    Constructed([DEFAULT_OPTIONS EXCEPT !.caseSensitive = cs, !.separator = sep])

-----------------------------------------------------------------------------
(* What the claims speak of *)

\* the latest call was route(), and its outcome
Routed == last.op = "route"
Res == last.result[1]

\* the path and the method a route() call matches against
NormalizedPath == trimTrailing(last.arg, options.separator)
RequestMethod == toUpperCase(last.method)

\* records that match the request's path and are eligible for its method
EligibleMatches ==
  {i \in DOMAIN routes :
     /\ routeMatchOf(routes[i], NormalizedPath, options.caseSensitive).ok
     /\ methodEligible(routes[i], RequestMethod)}

\* a record whose pattern holds a {+name} placeholder
HasGreedyPlaceholder(pathPattern) ==
  \E k \in DOMAIN EXTRACT_PATH_PARAMS(pathPattern) :
    startsWith(EXTRACT_PATH_PARAMS(pathPattern)[k], <<"{", "+">>)

First(S) == CHOOSE i \in S : \A j \in S : i <= j

\* the result names record i as its winner
WinnerIs(i) ==
  /\ ~Res.threw
  /\ Res.route = Some(_cloneRouteRecord(routes[i]))
  /\ Res.route_object = routes[i].routeObject
  /\ Res.is_default = FALSE

IsDefaultResult ==
  /\ ~Res.threw
  /\ Res.is_default = TRUE
  /\ Res.route = Null
  /\ Res.route_object = defaultRouteObject
  /\ Res.params = EmptyObject

-----------------------------------------------------------------------------
(* Precedence among literal, typed and proxy records *)

Inputs ==
  [patterns |-> {<<"/","a">>, <<"/","{","x","}">>, <<"/","{","+","g","}">>,
                 <<"/","{","+">>},
   methodArgs |-> {One(<<"g","e","t">>), One(<<"p","u","t">>)},
   payloads |-> {"o1", "o2"},
   defaults |-> {"dflt"},
   separators |-> {<<"/">>},
   caseFlags |-> {FALSE},
   paths |-> {<<"/","a">>, <<"/","{","+">>, <<"/">>},
   methods |-> {<<"G","E","T">>}]

Init == InitWith(Inputs)
Next == NextWith(Inputs)
Spec == Init /\ [][Next]_vars

\* C1: route() returns the first-registered eligible match that has no
\* {+name} placeholder; if there is none, the first-registered eligible match
\* with one; if there is none, the default; if there is none, it fails.
C1_WinnerOrder ==
  Routed =>
    LET plain == {i \in EligibleMatches : ~HasGreedyPlaceholder(routes[i].pathPattern)}
    IN IF plain # {} THEN WinnerIs(First(plain))
       ELSE IF EligibleMatches # {} THEN WinnerIs(First(EligibleMatches))
       ELSE IF hasDefault(defaultRouteObject) THEN IsDefaultResult
       ELSE Res.threw /\ Res.error = NotFoundError

\* the same order of preference, with "greedy" read as the record's proxy
\* flag (the pattern text contains "{+")
WinnerOrderByFlag ==
  Routed =>
    LET plain == {i \in EligibleMatches : ~routes[i].isProxy}
    IN IF plain # {} THEN WinnerIs(First(plain))
       ELSE IF EligibleMatches # {} THEN WinnerIs(First(EligibleMatches))
       ELSE IF hasDefault(defaultRouteObject) THEN IsDefaultResult
       ELSE Res.threw /\ Res.error = NotFoundError

-----------------------------------------------------------------------------
(* Method eligibility *)

MethodInputs ==
  [patterns |-> {<<"/","a">>, <<"/","{","x","}">>},
   methodArgs |-> {One(<<"g","e","t">>), One(<<"P","O","S","T">>), Many(<<<<"P","u","t">>, <<"*">>>>)},
   payloads |-> {"o1", "o2"},
   defaults |-> {"dflt"},
   separators |-> {<<"/">>},
   caseFlags |-> {FALSE},
   paths |-> {<<"/","a">>},
   methods |-> {<<"G","E","T">>, <<"G","e","t">>, <<"p","o","s","t">>, <<"d","e","l">>}]

InitMethods == InitWith(MethodInputs)
NextMethods == NextWith(MethodInputs)
SpecMethods == InitMethods /\ [][NextMethods]_vars

\* two method tokens that differ at most in letter case
SameToken(a, b) ==
  /\ Len(a) = Len(b)
  /\ \A k \in DOMAIN a :
       \/ a[k] = b[k]
       \/ \E n \in DOMAIN LowerChars : {a[k], b[k]} = {LowerChars[n], UpperChars[n]}

NoLowerCase(a) == \A k \in DOMAIN a : a[k] \notin Range(LowerChars)

\* the request's method, in any letter case, or "*" is among the record's methods
AcceptsRequest(rec) ==
  \E k \in DOMAIN rec.methods :
    rec.methods[k] = WildcardMethod \/ SameToken(rec.methods[k], last.method)

\* the methods a register() call was given
GivenMethods ==
  IF last.methodsArg.isArray THEN last.methodsArg.list ELSE <<last.methodsArg.single>>

\* C2: a record keeps the methods it was registered with, uppercased; a request
\* is resolved as if the table held only the records whose methods contain the
\* request's method in some letter case or "*", so a record that matches the path
\* but not the method never hides a later record.
C2_MethodEligibility ==
  /\ (last.op = "register" /\ ~last.threw) =>
       LET rec == routes[Len(routes)]
       IN /\ Len(rec.methods) = Len(GivenMethods)
          /\ \A k \in DOMAIN rec.methods :
               SameToken(rec.methods[k], GivenMethods[k]) /\ NoLowerCase(rec.methods[k])
  /\ Routed =>
       LET accepting == {i \in DOMAIN routes :
                           /\ routeMatchOf(routes[i], NormalizedPath, options.caseSensitive).ok
                           /\ AcceptsRequest(routes[i])}
       IN /\ Res = route(SelectSeq(routes, AcceptsRequest), defaultRouteObject, options,
                         last.arg, last.method)
          /\ accepting = {} <=> (Res.threw \/ Res.is_default)
          /\ accepting # {} => \E i \in accepting : WinnerIs(i)

\* C2 (witness): a record registered with a lowercase method matches the path
\* and is skipped for its method, and a later record with the same pattern wins
\* a request whose method is not written in upper case.
C2_Witness ==
  /\ Routed
  /\ Len(routes) = 2
  /\ routes[1].pathPattern = routes[2].pathPattern
  /\ routeMatchOf(routes[1], NormalizedPath, options.caseSensitive).ok
  /\ ~AcceptsRequest(routes[1])
  /\ routes[1].routeObject # routes[2].routeObject
  /\ WinnerIs(2)
  /\ last.method # RequestMethod

-----------------------------------------------------------------------------
(* The default payload and the failure of route() *)

DefaultInputs ==
  [patterns |-> {<<"/","a">>},
   methodArgs |-> {One(<<"G","E","T">>), One(<<"P","O","S","T">>)},
   payloads |-> {"o1"},
   defaults |-> {JSNull, JSUndefined, "", "dflt"},
   separators |-> {<<"/">>},
   caseFlags |-> {FALSE},
   paths |-> {<<"/","a">>, <<"/","b">>},
   methods |-> {<<"G","E","T">>, <<"d","e","l">>}]

InitDefault == InitWith(DefaultInputs)
NextDefault == NextWith(DefaultInputs)
SpecDefault == InitDefault /\ [][NextDefault]_vars

\* C3 (as claimed): route() fails exactly when no record is an eligible match
\* and registerDefault() has not been called, whatever payload it was given.
C3_FailsIffNoDefaultRegistered ==
  Routed => (Res.threw <=> (EligibleMatches = {} /\ registeredDefault = Null))

\* C3 (amended): route() fails, with the not-found error, exactly when no record
\* is an eligible match and the default is null: registerDefault() has not been
\* called, or its latest call passed null.  Any other payload, undefined and the
\* empty string included, makes route() return.
C3_FailsIffDefaultIsNull ==
  Routed =>
    /\ Res.threw <=> (EligibleMatches = {}
                      /\ (registeredDefault = Null \/ registeredDefault = Some(JSNull)))
    /\ Res.threw => Res.error = NotFoundError

\* C3 (witness): a falsy default other than null is returned.
C3_Witness ==
  /\ Routed
  /\ EligibleMatches = {}
  /\ registeredDefault \in {Some(JSUndefined), Some("")}
  /\ ~Res.threw
  /\ Res.route_object = registeredDefault[1]

\* C4: with no eligible match and a default payload (a default that is not
\* null), route() returns is_default = true, empty params, route = null and the
\* registered default; and in every result is_default is true iff route is null.
C4_DefaultResult ==
  Routed =>
    /\ (EligibleMatches = {} /\ registeredDefault # Null /\ registeredDefault # Some(JSNull)) =>
         /\ ~Res.threw
         /\ Res.is_default = TRUE
         /\ Res.params = EmptyObject
         /\ Res.route = Null
         /\ Res.route_object = registeredDefault[1]
    /\ ~Res.threw => (Res.is_default <=> Res.route = Null)

\* C4 (witness): a record matches the path but not the method, and the default
\* is returned.
C4_Witness ==
  /\ Routed
  /\ EligibleMatches = {}
  /\ \E i \in DOMAIN routes : routeMatchOf(routes[i], NormalizedPath, options.caseSensitive).ok
  /\ Res.is_default = TRUE
  /\ Res.route_object = "dflt"

-----------------------------------------------------------------------------
(* Trailing separators *)

TrimInputs ==
  [patterns |-> {<<"a">>, <<"/">>, <<"{","x","}">>},
   methodArgs |-> {One(<<"*">>)},
   payloads |-> {"o1"},
   defaults |-> {"dflt"},
   separators |-> {<<"/">>, <<"-","/">>},
   caseFlags |-> {FALSE},
   paths |-> {<<>>, <<"/">>, <<"a">>, <<"a","/">>, <<"a","-","/">>, <<"a","/","-","/">>, <<"-","/">>, <<"a","-">>},
   methods |-> {<<>>}]

InitTrim == InitWith(TrimInputs)
NextTrim == NextWith(TrimInputs)
SpecTrim == InitTrim /\ [][NextTrim]_vars

\* route(path, m) on the current router, m being the latest request's method
OutcomeFor(path) == route(routes, defaultRouteObject, options, path, last.method)

\* P, P + sep and P + sep + sep give the same outcome
SameWithTrailing(P) ==
  /\ Res = OutcomeFor(P \o options.separator)
  /\ Res = OutcomeFor(P \o options.separator \o options.separator)

\* C5 (as claimed): for every path P other than the root (the separator itself),
\* route(P), route(P + sep) and route(P + sep + sep) give the same outcome.
C5_TrailingIdempotent ==
  (Routed /\ last.arg # options.separator) => SameWithTrailing(last.arg)

\* C5 (amended): the same, for every non-empty path P other than the root.
C5_TrailingIdempotentNonEmpty ==
  (Routed /\ last.arg # options.separator /\ last.arg # <<>>) => SameWithTrailing(last.arg)

\* C5 (witness): a path ending with a two-character separator reaches a record.
C5_Witness ==
  /\ Routed
  /\ Len(options.separator) = 2
  /\ last.arg # options.separator
  /\ endsWith(last.arg, options.separator)
  /\ ~Res.threw
  /\ Res.is_default = FALSE

RECURSIVE Repeat(_, _)
Repeat(s, k) == IF k = 0 THEN <<>> ELSE s \o Repeat(s, k - 1)

\* C6: the path route() matches against is the given path less a whole number
\* of trailing separators; it is empty only if the given path is; a path that is
\* the separator is kept; and it ends with the separator only if it is the
\* separator.
C6_Normalization ==
  Routed =>
    /\ \E k \in 0..Len(last.arg) :
         last.arg = NormalizedPath \o Repeat(options.separator, k)
    /\ last.arg # <<>> => NormalizedPath # <<>>
    /\ last.arg = options.separator => NormalizedPath = options.separator
    /\ endsWith(NormalizedPath, options.separator) => NormalizedPath = options.separator
    /\ ~Res.threw => Res.path = NormalizedPath

\* C6 (witness): a two-character separator is removed from a path that then
\* still ends with the separator's last character.
C6_Witness ==
  /\ Routed
  /\ ~Res.threw
  /\ Len(options.separator) = 2
  /\ Len(last.arg) = Len(Res.path) + 2
  /\ Res.path[Len(Res.path)] = options.separator[2]

-----------------------------------------------------------------------------
(* Placeholders.  A pattern with one placeholder is a literal prefix, the   *)
(* placeholder and a literal suffix; a path matches it by its own prefix,   *)
(* middle and suffix.                                                      *)

OnePlaceholder(pp) ==
  /\ Cardinality({a \in DOMAIN pp : pp[a] = "{"}) = 1
  /\ Cardinality({b \in DOMAIN pp : pp[b] = "}"}) = 1
  /\ \E a, b \in DOMAIN pp : pp[a] = "{" /\ pp[b] = "}" /\ a + 1 < b

OpenAt(pp) == CHOOSE a \in DOMAIN pp : pp[a] = "{"
CloseAt(pp) == CHOOSE b \in DOMAIN pp : pp[b] = "}"
PrefixOf(pp) == SubSeq(pp, 1, OpenAt(pp) - 1)
SuffixOf(pp) == SubSeq(pp, CloseAt(pp) + 1, Len(pp))
KindOf(pp) == pp[OpenAt(pp) + 1]
NameOf(pp) ==
  IF KindOf(pp) \in {"#", "+"} THEN SubSeq(pp, OpenAt(pp) + 2, CloseAt(pp) - 1)
  ELSE SubSeq(pp, OpenAt(pp) + 1, CloseAt(pp) - 1)

SameText(a, b, ignoreCase) == IF ignoreCase THEN SameToken(a, b) ELSE a = b

\* the path has the prefix and the suffix of record rec's pattern, and a
\* non-empty middle
Framed(rec, path) ==
  /\ Len(path) >= Len(PrefixOf(rec.pathPattern)) + Len(SuffixOf(rec.pathPattern)) + 1
  /\ SameText(SubSeq(path, 1, Len(PrefixOf(rec.pathPattern))),
              PrefixOf(rec.pathPattern), rec.pattern.ignoreCase)
  /\ SameText(SubSeq(path, Len(path) - Len(SuffixOf(rec.pathPattern)) + 1, Len(path)),
              SuffixOf(rec.pathPattern), rec.pattern.ignoreCase)

MiddleOf(rec, path) ==
  SubSeq(path, Len(PrefixOf(rec.pathPattern)) + 1,
         Len(path) - Len(SuffixOf(rec.pathPattern)))

Matches(i) == routeMatchOf(routes[i], NormalizedPath, options.caseSensitive).ok

RECURSIVE DecimalValue(_)
DecimalValue(D) ==
  IF D = <<>> THEN 0
  ELSE 10 * DecimalValue(SubSeq(D, 1, Len(D) - 1))
       + (CHOOSE d \in 0..9 : DigitChars[d + 1] = D[Len(D)])

IntegerInputs ==
  [patterns |-> {<<"/","{","#","n","}">>, <<"/","u","{","#","n","}","/","b">>},
   methodArgs |-> {One(<<"*">>)},
   payloads |-> {"o1", "o2"},
   defaults |-> {"dflt"},
   separators |-> {<<"/">>},
   caseFlags |-> {FALSE, TRUE},
   paths |-> {<<"/","1","5">>, <<"/","0","0","7">>, <<"/","1","a">>, <<"/","a">>, <<"/","U","7","/","b">>, <<"/">>},
   methods |-> {<<>>}]

InitInteger == InitWith(IntegerInputs)
NextInteger == NextWith(IntegerInputs)
SpecInteger == InitInteger /\ [][NextInteger]_vars

StringInputs ==
  [patterns |-> {<<"/","{","x","}">>, <<"/","{","+","g","}">>, <<"/","{","x","}","/","b">>},
   methodArgs |-> {One(<<"*">>)},
   payloads |-> {"o1"},
   defaults |-> {"dflt"},
   separators |-> {<<"/">>, <<"-","/">>},
   caseFlags |-> {FALSE},
   paths |-> {<<"/","a">>, <<"/","a","/","b">>, <<"/","a","-","b">>, <<"/","a","-","/","b">>, <<"/","a","\n","b">>, <<"/","-">>},
   methods |-> {<<>>}]

InitString == InitWith(StringInputs)
NextString == NextWith(StringInputs)
SpecString == InitString /\ [][NextString]_vars

\* the separator in effect when record rec, with a {name} placeholder, was
\* registered
RegisteredSeparator(rec) ==
  rec.pattern.source[CHOOSE k \in DOMAIN rec.pattern.source :
                       rec.pattern.source[k].t = "seg"].sep

\* what C8 says of the record routes[i] and the path
PlaceholderMatching(i) ==
  LET pp == routes[i].pathPattern
      middle == MiddleOf(routes[i], NormalizedPath)
  IN /\ KindOf(pp) = "+" =>
          (Matches(i) <=> Framed(routes[i], NormalizedPath))
     /\ KindOf(pp) \notin {"#", "+"} =>
          (Matches(i) <=> /\ Framed(routes[i], NormalizedPath)
                          /\ ~includes(middle, RegisteredSeparator(routes[i])))
     /\ WinnerIs(i) => Res.params = <<[k |-> NameOf(pp), v |-> StrVal(middle)]>>

\* C8: a record whose one placeholder is {name} matches the pattern's prefix,
\* one or more characters holding no occurrence of the separator of its
\* registration, and the suffix; one whose placeholder is {+name} matches the
\* prefix, one or more characters of any kind, and the suffix.
C8_PlaceholderMatching ==
  Routed =>
    \A i \in DOMAIN routes :
      (OnePlaceholder(routes[i].pathPattern) /\ KindOf(routes[i].pathPattern) # "#") =>
        PlaceholderMatching(i)

\* an occurrence of the separator begins inside the middle of the path (it may
\* end in the suffix)
SeparatorBeginsInMiddle(rec, path) ==
  \E p \in (Len(PrefixOf(rec.pathPattern)) + 1) ..
            (Len(path) - Len(SuffixOf(rec.pathPattern))) :
    StartsWithAt(path, RegisteredSeparator(rec), p)

\* what the code does for the record routes[i] and a path with no line
\* terminator: a {name} placeholder takes one or more characters at none of
\* which an occurrence of the separator begins, a {+name} placeholder one or
\* more characters
PlaceholderMatchingByLookahead(i) ==
  LET pp == routes[i].pathPattern
      middle == MiddleOf(routes[i], NormalizedPath)
  IN /\ KindOf(pp) = "+" =>
          (Matches(i) <=> Framed(routes[i], NormalizedPath))
     /\ KindOf(pp) \notin {"#", "+"} =>
          (Matches(i) <=> /\ Framed(routes[i], NormalizedPath)
                          /\ ~SeparatorBeginsInMiddle(routes[i], NormalizedPath))
     /\ WinnerIs(i) => Res.params = <<[k |-> NameOf(pp), v |-> StrVal(middle)]>>

PlaceholderMatchingOnOneLine ==
  (Routed /\ \A k \in DOMAIN last.arg : last.arg[k] \notin LineTerminators) =>
    \A i \in DOMAIN routes :
      (OnePlaceholder(routes[i].pathPattern) /\ KindOf(routes[i].pathPattern) # "#") =>
        PlaceholderMatchingByLookahead(i)

\* a captured {name} value never holds the separator of its registration
CapturedValueHasNoSeparator ==
  Routed =>
    \A i \in DOMAIN routes :
      (OnePlaceholder(routes[i].pathPattern) /\ KindOf(routes[i].pathPattern) \notin {"#", "+"}
         /\ WinnerIs(i)) =>
        ~includes(Res.params[1].v.s, RegisteredSeparator(routes[i]))

-----------------------------------------------------------------------------
(* Literal patterns *)

LiteralInputs ==
  [patterns |-> {<<"/","a">>, <<"/","a","/">>, <<"/","{","x","}">>, <<"/","{","+","g","}">>, <<"/","{","+">>},
   methodArgs |-> {One(<<"g","e","t">>)},
   payloads |-> {"o1", "o2"},
   defaults |-> {"dflt"},
   separators |-> {<<"/">>},
   caseFlags |-> {FALSE},
   paths |-> {<<"/","a">>, <<"/","a","/">>, <<"/","{","+">>},
   methods |-> {<<"G","E","T">>, <<"p","u","t">>}]

InitLiteral == InitWith(LiteralInputs)
NextLiteral == NextWith(LiteralInputs)
SpecLiteral == InitLiteral /\ [][NextLiteral]_vars

\* record i is a literal record, the request's path is its pattern and the
\* request's method is eligible for it
LiteralRequested(i) ==
  /\ routes[i].pattern.isString
  /\ routes[i].pathPattern = last.arg
  /\ methodEligible(routes[i], RequestMethod)

\* no other record is preferred to record i: no earlier eligible match is
\* returned at once, and if record i is itself deferred (its text holds "{+"),
\* every eligible match is deferred and none is earlier
TakesPrecedence(i) ==
  IF routes[i].isProxy
  THEN \A j \in EligibleMatches : j >= i /\ routes[j].isProxy
  ELSE \A j \in EligibleMatches : j < i => routes[j].isProxy

\* C9 (as claimed): for a registered literal pattern P and a method eligible for
\* its record, route(P, method) returns that record's payload with empty params
\* and is_default = false.
C9_LiteralReturnsOwnRecord ==
  Routed =>
    \A i \in DOMAIN routes :
      LiteralRequested(i) => (WinnerIs(i) /\ Res.params = EmptyObject)

\* C9 (amended): when moreover P does not lose a trailing separator to
\* normalization, route(P, method) returns a record, not the default and not a
\* failure; it is that record, with empty params, when no other record is
\* preferred to it.
C9_LiteralReturnsPreferredRecord ==
  Routed =>
    \A i \in DOMAIN routes :
      (LiteralRequested(i) /\ NormalizedPath = last.arg) =>
        /\ ~Res.threw
        /\ Res.is_default = FALSE
        /\ TakesPrecedence(i) => (WinnerIs(i) /\ Res.params = EmptyObject)

\* C9 (witness): a literal record registered after a proxy record that matches
\* the same path is returned.
C9_Witness ==
  /\ Routed
  /\ Len(routes) = 2
  /\ LiteralRequested(2)
  /\ 1 \in EligibleMatches
  /\ routes[1].routeObject # routes[2].routeObject
  /\ WinnerIs(2)
  /\ Res.params = EmptyObject

-----------------------------------------------------------------------------
(* Duplicate parameter names *)

DuplicateInputs ==
  [patterns |-> {<<"/","{","a","}","/","{","a","}">>, <<"/","{","#","a","}","/","{","a","}">>, <<"/","{","+","a","}","{","#","a","}">>, <<"/","{","#","}","{","+","}">>, <<"/","{","a","}","/","{","b","}">>, <<"/","{","a","}","{","#","#","a","}","{","+","A","}">>},
   methodArgs |-> {One(<<"*">>)},
   payloads |-> {"o1"},
   defaults |-> {"dflt"},
   separators |-> {<<"/">>},
   caseFlags |-> {FALSE},
   paths |-> {<<"/","a","/","b">>, <<"/","a">>},
   methods |-> {<<>>}]

InitDuplicates == InitWith(DuplicateInputs)
NextDuplicates == NextWith(DuplicateInputs)
SpecDuplicates == InitDuplicates /\ [][NextDuplicates]_vars

\* a placeholder's name: what stands between the braces, less a leading # or +
BareName(placeholder) ==
  LET body == SubSeq(placeholder, 2, Len(placeholder) - 1)
  IN IF body[1] \in {"#", "+"} THEN Tail(body) ELSE body

RepeatsName(pathPattern) ==
  LET ps == EXTRACT_PATH_PARAMS(pathPattern)
  IN \E a, b \in DOMAIN ps : a < b /\ BareName(ps[a]) = BareName(ps[b])

\* C10: register(pattern, ...) throws the duplication error naming the pattern
\* iff two of its placeholders have the same name once # or + is removed;
\* otherwise it appends the record of the pattern.
C10_DuplicationIffRepeatedName ==
  last.op = "register" =>
    /\ last.threw <=> RepeatsName(last.arg)
    /\ last.threw => last.error = DuplicationError(last.arg)
    /\ ~last.threw => (routes # <<>> /\ routes[Len(routes)].pathPattern = last.arg)

\* C10 (witness): {#a} and {a} collide; and a pattern of three placeholders with
\* distinct names is registered.
C10_Witness ==
  /\ last.op = "register"
  /\ last.threw
  /\ last.arg = <<"/","{","#","a","}","/","{","a","}">>
  /\ routes # <<>>
  /\ Len(routes[1].params) = 3

-----------------------------------------------------------------------------
(* The separator option *)

OptionInputs ==
  [patterns |-> {<<"a">>, <<"{","x","}">>},
   methodArgs |-> {One(<<"*">>)},
   payloads |-> {"o1"},
   defaults |-> {"dflt"},
   separators |-> {<<"/">>, <<"-","/">>},
   caseFlags |-> {FALSE, TRUE},
   paths |-> {<<"a">>, <<"a","/">>},
   methods |-> {<<>>}]

\* construction with no option, with either option, with an empty separator
InitOptions ==
  \E cs \in {Null} \cup {Some(v) : v \in OptionInputs.caseFlags},
     sep \in {Null} \cup {Some(v) : v \in OptionInputs.separators \cup {<<>>}} :
    New([caseSensitive |-> cs, separator |-> sep])
NextOptions == Alive /\ NextWith(OptionInputs)
SpecOptions == InitOptions /\ [][NextOptions]_vars

\* the latest call set, or tried to set, the separator to value
SeparatorGiven(value) ==
  /\ \/ last.op = "new"
     \/ last.op \in {"setOption", "setSeparator"} /\ last.option = "separator"
  /\ last.arg = value

\* C11: the separator of a router is never empty; the constructor, setOption
\* and setSeparator throw 'Option "separator" must not be empty' when given the
\* empty separator and only then, and a separator that was accepted is the one
\* in effect.
C11_SeparatorNeverEmpty ==
  /\ Alive => options.separator # <<>>
  /\ SeparatorGiven(<<>>) => (last.threw /\ last.error = SeparatorError)
  /\ \A v \in OptionInputs.separators :
       SeparatorGiven(v) => (~last.threw /\ options.separator = v)

\* C11 (witness): setSeparator('') throws on a router whose separator is not
\* the default one, and that separator stays in effect.
C11_Witness ==
  /\ last.op = "setSeparator"
  /\ last.arg = <<>>
  /\ last.threw
  /\ last.error = SeparatorError
  /\ options.separator = <<"-","/">>
  /\ routes # <<>>

\* a construction with the empty separator is among the initial states
ConstructionNeverFails == Alive

-----------------------------------------------------------------------------
(* Objects handed out to the caller *)

IsolationInputs ==
  [patterns |-> {<<"/","a">>, <<"/","{","x","}">>},
   methodArgs |-> {One(<<"g","e","t">>)},
   payloads |-> {"o1"},
   defaults |-> {"dflt"},
   separators |-> {<<"/">>},
   caseFlags |-> {FALSE},
   paths |-> {<<"/","a">>},
   methods |-> {<<"G","E","T">>}]

InitIsolation == InitWith(IsolationInputs)
NextIsolation ==
  \/ \E p \in IsolationInputs.patterns, m \in IsolationInputs.methodArgs,
        o \in IsolationInputs.payloads : Register(p, m, o)
  \/ GetRoutes
  \/ \E path \in IsolationInputs.paths, method \in IsolationInputs.methods :
       RouteKeeping(path, method)
  \/ MutateSnapshotArray
  \/ \E k \in 1..MaxRoutes, c \in Components : MutateSnapshotRecord(k, c)
  \/ \E c \in Components : MutateResultRecord(c)
SpecIsolation == InitIsolation /\ [][NextIsolation]_vars

\* the content of the array the accessor would return
snapshotContent(rs) == [i \in DOMAIN rs |-> snapshotOf(rs).items[i].value]

\* a step leaves every route() outcome and the accessor's content as they were
Unobservable ==
  /\ \A path \in IsolationInputs.paths, method \in IsolationInputs.methods :
       route(routes', defaultRouteObject', options', path, method)
         = route(routes, defaultRouteObject, options, path, method)
  /\ snapshotContent(routes') = snapshotContent(routes)

\* C12: a write by the caller to the array the routes accessor returned, to a
\* record in it, to a record's params, methods or integers array or its RegExp,
\* or to the record of a route() result, changes no later route() outcome and
\* no later content of the accessor.
C12_HandedOutObjectsAreCopies ==
  [][last'.op = "mutate" => Unobservable]_vars

\* C12 (witness): the caller has overwritten the methods and the RegExp of the
\* first record of the array it holds, and a later route() still returns the
\* first record of the table, unchanged.
C12_Witness ==
  /\ Routed
  /\ held.snapshot # Null
  /\ held.snapshot[1].items # <<>>
  /\ held.snapshot[1].items[1].value.methods = <<<<"?">>>>
  /\ held.snapshot[1].items[1].value.pattern = RegExpPattern(<<Lit("?")>>, FALSE)
  /\ held.result # Null
  /\ WinnerIs(1)
  /\ routes[1].methods = <<<<"G","E","T">>>>
  /\ ~routes[1].pattern.isString

\* the record kept of a result is the record the result holds
KeptRecordIsResultRecord ==
  Routed =>
    IF Res.threw \/ Res.route = Null THEN held.result = Null
    ELSE held.result # Null /\ Res.route = Some(held.result[1].value)

-----------------------------------------------------------------------------
(* The route table *)

TableInputs ==
  [patterns |-> {<<"/","a">>, <<"/","{","x","}">>, <<"/","{","a","}","{","a","}">>},
   methodArgs |-> {One(<<"g","e","t">>)},
   payloads |-> {"o1"},
   defaults |-> {"dflt"},
   separators |-> {<<"/">>},
   caseFlags |-> {FALSE, TRUE},
   paths |-> {<<"/","a">>},
   methods |-> {<<"G","E","T">>}]

InitTable == InitWith(TableInputs)
NextTable == NextWith(TableInputs) \/ GetRoutes
SpecTable == InitTable /\ [][NextTable]_vars

\* the step is a register() call that returned
Registered == last'.op = "register" /\ ~last'.threw

\* C13: a register() call that returns adds one record, the record of its
\* arguments, at the end of the table and leaves the records before it as they
\* were; every other step (a register() call that throws included) leaves the
\* table as it was; and the routes accessor lists the records of the table in
\* their order.
C13_TableAppendOnly ==
  [][/\ Registered =>
          /\ routes' = Append(routes, routes'[Len(routes')])
          /\ routes'[Len(routes')].pathPattern = last'.arg
          /\ routes'[Len(routes')].methods = normalizeMethods(last'.methodsArg)
     /\ ~Registered => routes' = routes
     /\ last'.op = "routes" =>
          /\ held'.snapshot # Null
          /\ Len(held'.snapshot[1].items) = Len(routes)
          /\ \A i \in DOMAIN routes :
               held'.snapshot[1].items[i].value = _cloneRouteRecord(routes[i])]_vars

\* C13 (witness): the accessor lists two records with different patterns in
\* the order of the table, after other operations.
C13_Witness ==
  /\ last.op = "routes"
  /\ Len(routes) = 2
  /\ routes[1].pathPattern = <<"/","{","x","}">>
  /\ routes[2].pathPattern = <<"/","a">>
  /\ held.snapshot[1].items[1].value.pathPattern = <<"/","{","x","}">>
  /\ held.snapshot[1].items[2].value.pathPattern = <<"/","a">>
  /\ defaultRouteObject = "dflt"
  /\ options.caseSensitive

-----------------------------------------------------------------------------
(* Case sensitivity *)

CaseInputs ==
  [patterns |-> {<<"/","A","b">>, <<"/","A","{","x","}">>},
   methodArgs |-> {One(<<"*">>)},
   payloads |-> {"o1"},
   defaults |-> {"dflt"},
   separators |-> {<<"/">>},
   caseFlags |-> {FALSE, TRUE},
   paths |-> {<<"/","A","b">>, <<"/","a","b">>, <<"/","a","B","/">>, <<"/","a","c">>},
   methods |-> {<<>>}]

InitCase == InitWith(CaseInputs)
NextCase == NextWith(CaseInputs)
SpecCase == InitCase /\ [][NextCase]_vars

\* C14: a literal record matches the (normalized) path of a request iff the
\* path is its pattern, letter case included when caseSensitive is true at the
\* time of the request and letter case apart when it is false, whatever the
\* option was when the record was registered.
C14_LiteralCaseIsLive ==
  Routed =>
    \A i \in DOMAIN routes :
      routes[i].pattern.isString =>
        (Matches(i) <=> IF options.caseSensitive
                        THEN routes[i].pathPattern = NormalizedPath
                        ELSE SameToken(routes[i].pathPattern, NormalizedPath))

\* C14 (witness): a literal record was in the table when a record was
\* registered with caseSensitive false; caseSensitive is now true, and the
\* literal record does not match a path that differs from it in letter case.
C14_Witness ==
  /\ Routed
  /\ Len(routes) = 2
  /\ routes[1].pattern.isString
  /\ ~routes[2].pattern.isString
  /\ routes[2].pattern.ignoreCase
  /\ options.caseSensitive
  /\ SameToken(routes[1].pathPattern, NormalizedPath)
  /\ routes[1].pathPattern # NormalizedPath
  /\ ~Matches(1)
  /\ Matches(2)

\* the step is setOption('caseSensitive', v)
CaseSensitiveSet == last'.op = "setOption" /\ last'.option = "caseSensitive"

\* C15: a record with placeholders gets the "i" flag iff caseSensitive is false
\* when it is registered; setOption('caseSensitive', v) changes for no such
\* record and no path whether the record matches the path; and at a request the
\* record matches by its own flag: the literal text around its placeholder is
\* compared letter case apart iff the record has the flag.
C15_PlaceholderCaseIsFrozen ==
  [][/\ (Registered /\ ~routes'[Len(routes')].pattern.isString) =>
          routes'[Len(routes')].pattern.ignoreCase = ~options.caseSensitive
     /\ CaseSensitiveSet =>
          \A i \in DOMAIN routes, path \in CaseInputs.paths :
            ~routes[i].pattern.isString =>
              routeMatchOf(routes'[i], path, options'.caseSensitive)
                = routeMatchOf(routes[i], path, options.caseSensitive)
     /\ last'.op = "route" =>
          \A i \in DOMAIN routes :
            ~routes[i].pattern.isString =>
              (routeMatchOf(routes[i], trimTrailing(last'.arg, options.separator),
                            options.caseSensitive).ok
                 <=> /\ Framed(routes[i], trimTrailing(last'.arg, options.separator))
                     /\ ~SeparatorBeginsInMiddle(routes[i],
                                                 trimTrailing(last'.arg, options.separator)))]_vars

\* C15 (witness): a record registered with caseSensitive false matches a path
\* in another letter case while caseSensitive is true, and a record registered
\* with caseSensitive true does not.
C15_Witness ==
  /\ Routed
  /\ Len(routes) = 2
  /\ ~routes[1].pattern.isString
  /\ ~routes[2].pattern.isString
  /\ ~routes[1].pattern.ignoreCase
  /\ routes[2].pattern.ignoreCase
  /\ options.caseSensitive
  /\ last.arg = <<"/","a","b">>
  /\ ~Matches(1)
  /\ WinnerIs(2)

-----------------------------------------------------------------------------
(* The singleton *)

SingletonInputs ==
  [patterns |-> {<<"/","a">>},
   methodArgs |-> {One(<<"*">>)},
   payloads |-> {"o1"},
   defaults |-> {"dflt"},
   separators |-> {<<"-">>}]

\* the patterns registered on the id-th instance
patternsOn(id) ==
  {process.heap[id].routes[k].pathPattern : k \in DOMAIN process.heap[id].routes}

\* a caller registers a pattern once on an instance
InitSingleton == Constructed(DEFAULT_OPTIONS)
NextSingleton ==
  \/ \E cls \in Classes : InitCall(cls)
  \/ \E cls \in Classes : NewCall(cls)
  \/ \E id \in DOMAIN process.heap, p \in SingletonInputs.patterns,
        m \in SingletonInputs.methodArgs, o \in SingletonInputs.payloads :
       p \notin patternsOn(id) /\ RegisterOn(id, p, m, o)
  \/ \E id \in 1..MaxInstances, o \in SingletonInputs.defaults : RegisterDefaultOn(id, o)
  \/ \E id \in 1..MaxInstances, v \in SingletonInputs.separators : SetSeparatorOn(id, v)
SpecSingleton == InitSingleton /\ [][NextSingleton]_vars

\* what is observed through a reference to the id-th instance
observed(proc, id) ==
  [routes |-> proc.heap[id].routes,
   defaultRouteObject |-> proc.heap[id].defaultRouteObject,
   options |-> optionsAtAddress(proc, proc.heap[id].optionsAt)]

\* every init() call on a class has returned the same instance
OneInstancePerClass ==
  \A cls \in Classes : Cardinality(process.returned[cls]) <= 1

\* C16: init() called on a class returns the same instance at every call, and
\* creates an instance only when the class has no _router yet; new creates an
\* instance that no init() call has returned or returns; and a call on one
\* instance changes what is observed through no other instance.
C16_InitReturnsTheSingleton ==
  [][/\ OneInstancePerClass'
     /\ last'.op = "init" =>
          /\ last'.result = staticRouter(process', last'.option)
          /\ Len(process'.heap) = Len(process.heap)
                + (IF staticRouter(process, last'.option) = Null THEN 1 ELSE 0)
     /\ last'.op = "new" =>
          /\ Len(process'.heap) = Len(process.heap) + 1
          /\ last'.result = Some(Len(process'.heap))
          /\ process'.statics = process.statics
          /\ \A cls \in Classes : Len(process'.heap) \notin process'.returned[cls]
     /\ \A id \in DOMAIN process.heap :
          last'.result # Some(id) => observed(process', id) = observed(process, id)]_vars

\* C16 (witness): a later ODRouter.init() returns the first instance, through
\* which a record, a default and a separator were set, while an instance made
\* with new is as constructed.
C16_Witness ==
  /\ last.op = "init"
  /\ last.option = "ODRouter"
  /\ last.result = Some(1)
  /\ process.returned["ODRouter"] = {1}
  /\ Len(process.heap) = 2
  /\ process.statics["Sub"] = Null
  /\ Len(observed(process, 1).routes) = 1
  /\ observed(process, 1).defaultRouteObject = "dflt"
  /\ observed(process, 1).options.separator = <<"-">>
  /\ observed(process, 2) = [routes |-> <<>>, defaultRouteObject |-> JSNull,
                              options |-> DEFAULT_OPTIONS]

\* init() returns one instance whatever the class it is called on
OneSingletonAcrossClasses ==
  Cardinality(UNION {process.returned[cls] : cls \in Classes}) <= 1

\* init() called on a class returns an instance of that class
SingletonIsOfItsClass ==
  \A cls \in Classes : \A id \in process.returned[cls] : process.heap[id].class = cls

-----------------------------------------------------------------------------
(* Registration order *)

-----------------------------------------------------------------------------
(* The path and the method of a result *)

ResultInputs ==
  [patterns |-> {<<"/","A","b">>, <<"/","{","+","g","}">>},
   methodArgs |-> {One(<<"g","e","t">>)},
   payloads |-> {"o1"},
   defaults |-> {"dflt"},
   separators |-> {<<"/">>},
   caseFlags |-> {FALSE},
   paths |-> {<<"/","a","B","/">>, <<"/","X","/","/">>, <<"/","A","b">>, <<"/">>},
   methods |-> {<<"g","e","t">>, <<"P","u","t">>}]

InitResult == InitWith(ResultInputs)
NextResult == NextWith(ResultInputs)
SpecResult == InitResult /\ [][NextResult]_vars

\* the path has a trailing separator route() removes
HasRemovableSeparator(path) ==
  endsWith(path, options.separator) /\ Len(path) > Len(options.separator)

-----------------------------------------------------------------------------
(* The latest default *)

LastDefaultInputs ==
  [patterns |-> {<<"/","a">>},
   methodArgs |-> {One(<<"g","e","t">>)},
   payloads |-> {"o1"},
   defaults |-> {"d1", "d2"},
   separators |-> {<<"/">>, <<"-">>},
   caseFlags |-> {FALSE, TRUE},
   paths |-> {<<"/","a">>, <<"/","b">>},
   methods |-> {<<"G","E","T">>}]

InitLastDefault == InitWith(LastDefaultInputs)
NextLastDefault == NextWith(LastDefaultInputs)
SpecLastDefault == InitLastDefault /\ [][NextLastDefault]_vars

\* C20: the default in effect is the payload of the latest registerDefault()
\* call, whatever was registered before it and whatever calls came between or
\* after; a route() call that falls back to the default returns that payload.
C20_LastDefaultWins ==
  /\ registeredDefault # Null => defaultRouteObject = registeredDefault[1]
  /\ (Routed /\ ~Res.threw /\ Res.is_default) =>
       /\ registeredDefault # Null
       /\ Res.route_object = registeredDefault[1]

\* C20 (witness): registerDefault('d2') replaced the default 'd1', a record
\* was registered and the options were changed, and a request with no eligible
\* match gets 'd2'.
C20_Witness ==
  /\ Routed
  /\ replacedDefault = Some("d1")
  /\ registeredDefault = Some("d2")
  /\ routes # <<>>
  /\ options = [caseSensitive |-> TRUE, separator |-> <<"-">>]
  /\ EligibleMatches = {}
  /\ Res.is_default
  /\ Res.route_object = "d2"

-----------------------------------------------------------------------------
(* The params object *)

ParamInputs ==
  [patterns |-> {<<"/","{","b","}","/","{","1","}">>, <<"/","{","#","n","}","/","{","x","}">>,
                 <<"/","{","_","_","p","r","o","t","o","_","_","}">>, <<"/","a","/","b">>},
   methodArgs |-> {One(<<"*">>)},
   payloads |-> {"o1"},
   defaults |-> {"dflt"},
   separators |-> {<<"/">>},
   caseFlags |-> {FALSE},
   paths |-> {<<"/","0","7","/","y">>, <<"/","a","/","b">>, <<"/","q">>},
   methods |-> {<<>>}]

InitParams == InitWith(ParamInputs)
NextParams == NextWith(ParamInputs)
SpecParams == InitParams /\ [][NextParams]_vars

\* the capture groups of the record a result holds, on the result's path
CapturedBy(rec, path) == RegExpMatch(path, rec.pattern).groups

\* the params of the result are those of record rec, name by name in the
\* order the pattern declares them
ParamsAsDeclared(rec) ==
  IF rec.pattern.isString THEN Res.params = EmptyObject
  ELSE /\ ObjKeys(Res.params) = rec.params
       /\ Len(rec.params) = Len(CapturedBy(rec, Res.path))
       /\ \A k \in DOMAIN rec.params :
            Res.params[k].v = IF arrayIncludes(rec.integers, rec.params[k])
                              THEN IntVal(DecimalValue(CapturedBy(rec, Res.path)[k]))
                              ELSE StrVal(CapturedBy(rec, Res.path)[k])

\* C21: in every result that is not the default's, the keys of params are the
\* parameter names of the winning record in the order its pattern declares
\* them, one per capture group; an integer parameter's value is the number its
\* capture denotes, any other parameter's value is the captured text; and a
\* literal record gives empty params.
C21_ParamsFollowDeclaredNames ==
  (Routed /\ ~Res.threw /\ ~Res.is_default) => ParamsAsDeclared(Res.route[1])

\* a name an object lists out of turn, or does not take as a key of its own
OutOfTurnName(name) == IsArrayIndex(name) \/ name = ProtoKey

\* the same, for the records none of whose names is a canonical array index
\* or __proto__
ParamsFollowOrdinaryNames ==
  (Routed /\ ~Res.threw /\ ~Res.is_default
     /\ \A k \in DOMAIN Res.route[1].params : ~OutOfTurnName(Res.route[1].params[k])) =>
    ParamsAsDeclared(Res.route[1])

\* a record with an integer and a string parameter wins, and its params are
\* the two values under the two names in order
ParamsOfTwoKinds ==
  /\ Routed
  /\ ~Res.threw
  /\ Res.params = <<[k |-> <<"n">>, v |-> IntVal(7)], [k |-> <<"x">>, v |-> StrVal(<<"y">>)]>>

-----------------------------------------------------------------------------
(* The proxy flag *)

\* C22: a record is deferred behind the other matches iff its pattern holds a
\* {+name} placeholder; a record without one, every literal record included,
\* is returned when it is the first eligible match.
C22_GreedyIffGreedyPlaceholder ==
  /\ \A i \in DOMAIN routes :
       isDeferred(routes[i]) <=> HasGreedyPlaceholder(routes[i].pathPattern)
  /\ (Routed /\ EligibleMatches # {}
        /\ ~HasGreedyPlaceholder(routes[First(EligibleMatches)].pathPattern)) =>
       WinnerIs(First(EligibleMatches))

\* a record is deferred iff the text of its pattern contains "{+", which every
\* pattern with a {+name} placeholder does; a record that is not deferred is
\* returned when it is the first eligible match
DeferredIffTextHoldsOpening ==
  /\ \A i \in DOMAIN routes :
       /\ isDeferred(routes[i]) <=> includes(routes[i].pathPattern, <<"{", "+">>)
       /\ HasGreedyPlaceholder(routes[i].pathPattern) => isDeferred(routes[i])
  /\ (Routed /\ EligibleMatches # {} /\ ~isDeferred(routes[First(EligibleMatches)])) =>
       WinnerIs(First(EligibleMatches))

\* a literal record whose text contains "{+" is the first eligible match and
\* a later record is returned
LiteralDeferred ==
  /\ Routed
  /\ Len(routes) = 2
  /\ routes[1].pattern.isString
  /\ EligibleMatches = {1, 2}
  /\ routes[1].routeObject # routes[2].routeObject
  /\ WinnerIs(2)

-----------------------------------------------------------------------------
(* route() reads and does not write *)

\* every request of the pool has the same outcome after the step as before
SameOutcomes ==
  \A path \in DefaultInputs.paths, method \in DefaultInputs.methods :
    route(routes', defaultRouteObject', options', path, method)
      = route(routes, defaultRouteObject, options, path, method)

\* C23: a route() call, whether it returns or throws, leaves the table, the
\* default and the options as they were, and with them the outcome of every
\* request; a route() call that follows a route() call with the same arguments
\* has the same outcome.
C23_RouteIsReadOnly ==
  [][last'.op = "route" =>
       /\ routes' = routes
       /\ defaultRouteObject' = defaultRouteObject
       /\ options' = options
       /\ SameOutcomes
       /\ (last.op = "route" /\ last.arg = last'.arg /\ last.method = last'.method) =>
            /\ last'.threw = last.threw
            /\ last'.error = last.error
            /\ last'.result = last.result]_vars

\* C23 (witness): a route() call has thrown on a router whose default was
\* registered as null and that holds a record matching the path.
C23_Witness ==
  /\ Routed
  /\ routes # <<>>
  /\ Res.threw
  /\ Res.error = NotFoundError
  /\ registeredDefault = Some(JSNull)
  /\ \E i \in DOMAIN routes : routeMatchOf(routes[i], NormalizedPath, options.caseSensitive).ok

-----------------------------------------------------------------------------
(* Several greedy records *)

GreedyInputs ==
  [patterns |-> {<<"/","{","+","g","}">>, <<"/","{","+","h","}","/","b">>, <<"/","a","/","b">>},
   methodArgs |-> {One(<<"g","e","t">>)},
   payloads |-> {"o1", "o2"},
   defaults |-> {"dflt"},
   separators |-> {<<"/">>},
   caseFlags |-> {FALSE},
   paths |-> {<<"/","a","/","b">>, <<"/","x","/","b">>, <<"/","x">>},
   methods |-> {<<"G","E","T">>}]

InitGreedy == InitWith(GreedyInputs)
NextGreedy == NextWith(GreedyInputs)
SpecGreedy == InitGreedy /\ [][NextGreedy]_vars

\* the eligible matches with a {+name} placeholder
GreedyMatches == {i \in EligibleMatches : HasGreedyPlaceholder(routes[i].pathPattern)}

\* C24: when every eligible match is a greedy record, route() returns the
\* first-registered of them, with the params its own pattern captures from
\* the path: under its own name, the text between its prefix and its suffix.
C24_FirstGreedyWithOwnParams ==
  (Routed /\ GreedyMatches # {} /\ GreedyMatches = EligibleMatches) =>
    /\ WinnerIs(First(GreedyMatches))
    /\ Res.params =
         <<[k |-> NameOf(routes[First(GreedyMatches)].pathPattern),
            v |-> StrVal(MiddleOf(routes[First(GreedyMatches)], NormalizedPath))]>>

\* C24 (witness): two greedy records match the path and capture different
\* texts under different names; the first is returned with its own capture.
C24_Witness ==
  /\ Routed
  /\ Len(routes) = 2
  /\ GreedyMatches = {1, 2}
  /\ EligibleMatches = {1, 2}
  /\ routes[1].pathPattern = <<"/","{","+","h","}","/","b">>
  /\ routes[2].pathPattern = <<"/","{","+","g","}">>
  /\ routes[1].routeObject # routes[2].routeObject
  /\ WinnerIs(1)
  /\ Res.params = <<[k |-> <<"h">>, v |-> StrVal(<<"x">>)]>>

-----------------------------------------------------------------------------
(* A separator changed after registration *)

SeparatorInputs ==
  [patterns |-> {<<"/","{","x","}">>, <<"/","{","x","}","/","b">>},
   methodArgs |-> {One(<<"*">>)},
   payloads |-> {"o1"},
   defaults |-> {"dflt"},
   separators |-> {<<"/">>, <<"-">>},
   caseFlags |-> {FALSE},
   paths |-> {<<"/","a","-","b","-">>, <<"/","a","/","b","-">>, <<"/","a","-","b","/">>,
              <<"/","a","/","b">>},
   methods |-> {<<>>}]

InitSeparator == InitWith(SeparatorInputs)
NextSeparator == NextWith(SeparatorInputs)
SpecSeparator == InitSeparator /\ [][NextSeparator]_vars

\* the step is a setOption('separator', v) or setSeparator(v) call that returned
SeparatorSet ==
  /\ last'.op \in {"setOption", "setSeparator"}
  /\ last'.option = "separator"
  /\ ~last'.threw

\* record rec has one placeholder, of the kind {name}
HasSegmentPlaceholder(rec) ==
  OnePlaceholder(rec.pathPattern) /\ KindOf(rec.pathPattern) \notin {"#", "+"}

\* C25: a {name} placeholder excludes the separator in effect when its record
\* is registered; a later change of the separator leaves the table and its
\* matchers as they were; and at a request the path loses the trailing
\* occurrences of the separator in effect at the request, while each such
\* record matches by the separator of its registration: it takes one or more
\* characters at none of which that separator begins, the characters of the
\* current separator like any others.
C25_SeparatorIsFrozenInRecords ==
  [][/\ (Registered /\ HasSegmentPlaceholder(routes'[Len(routes')])) =>
          RegisteredSeparator(routes'[Len(routes')]) = options.separator
     /\ SeparatorSet =>
          /\ routes' = routes
          /\ options'.separator = last'.arg
     /\ last'.op = "route" =>
          /\ ~last'.threw =>
               last'.result[1].path = trimTrailing(last'.arg, options.separator)
          /\ \A i \in DOMAIN routes :
               HasSegmentPlaceholder(routes[i]) =>
                 (routeMatchOf(routes[i], trimTrailing(last'.arg, options.separator),
                               options.caseSensitive).ok
                    <=> /\ Framed(routes[i], trimTrailing(last'.arg, options.separator))
                        /\ ~SeparatorBeginsInMiddle(routes[i],
                              trimTrailing(last'.arg, options.separator)))]_vars

\* C25 (witness): a record registered under "/" is asked, under "-", for a
\* path ending with "-": the trailing "-" is removed, and the record captures
\* a text that holds "-"; a second record of the same pattern registered under
\* "-" does not match.
C25_Witness ==
  /\ Routed
  /\ options.separator = <<"-">>
  /\ Len(routes) = 2
  /\ routes[1].pathPattern = <<"/","{","x","}">>
  /\ routes[2].pathPattern = <<"/","{","x","}">>
  /\ RegisteredSeparator(routes[1]) = <<"/">>
  /\ RegisteredSeparator(routes[2]) = <<"-">>
  /\ last.arg = <<"/","a","-","b","-">>
  /\ WinnerIs(1)
  /\ ~Matches(2)
  /\ Res.path = <<"/","a","-","b">>
  /\ Res.params = <<[k |-> <<"x">>, v |-> StrVal(<<"a","-","b">>)]>>

\* a record registered under "/" never matches a path that, once the trailing
\* occurrences of the current separator are removed, holds "/" in the
\* placeholder's place
OldSeparatorStaysExcluded ==
  Routed =>
    \A i \in DOMAIN routes :
      (HasSegmentPlaceholder(routes[i]) /\ Framed(routes[i], NormalizedPath)
         /\ includes(MiddleOf(routes[i], NormalizedPath), RegisteredSeparator(routes[i]))) =>
        ~Matches(i)

-----------------------------------------------------------------------------
(* The records of the table *)

\* the capture groups of a record's matcher (none for a literal record)
CaptureGroups(rec) ==
  IF rec.pattern.isString THEN {}
  ELSE {k \in DOMAIN rec.pattern.source : rec.pattern.source[k].t # "lit"}

WellFormedRecord(rec) ==
  /\ \A a, b \in DOMAIN rec.params : a # b => rec.params[a] # rec.params[b]
  /\ Len(rec.integerParams) = Len(rec.params)
  /\ Cardinality(CaptureGroups(rec)) = Len(rec.params)
  /\ \A k \in DOMAIN rec.integers : arrayIncludes(rec.params, rec.integers[k])
  /\ \A k \in DOMAIN rec.params :
       rec.integerParams[k] <=> arrayIncludes(rec.integers, rec.params[k])
  /\ rec.pattern.isString =>
       (rec.params = <<>> /\ rec.integers = <<>> /\ rec.integerParams = <<>>)

\* C26: in every record of the table the parameter names are pairwise
\* distinct, there are as many names as recorded kinds and as capture groups of
\* the matcher, the names listed as integers are names of the record (those
\* whose kind is integer), and a literal record has no parameter.
C26_RecordsAreWellFormed ==
  \A i \in DOMAIN routes : WellFormedRecord(routes[i])

\* C26 (witness): the table holds a record of three placeholders of the three
\* kinds and a record of two.
C26_Witness ==
  /\ Len(routes) = 2
  /\ routes[1].params = <<<<"a">>, <<"#","a">>, <<"A">>>>
  /\ routes[1].integers = <<<<"#","a">>>>
  /\ routes[1].integerParams = <<FALSE, TRUE, FALSE>>
  /\ Cardinality(CaptureGroups(routes[1])) = 3
  /\ routes[2].params = <<<<"a">>, <<"b">>>>

-----------------------------------------------------------------------------
(* Operations that fail *)

FailureInputs ==
  [patterns |-> {<<"/","a">>, <<"/","{","a","}","/","{","#","a","}">>},
   methodArgs |-> {One(<<"g","e","t">>)},
   payloads |-> {"o1"},
   defaults |-> {"dflt", JSNull},
   separators |-> {<<"/">>, <<"-">>},
   caseFlags |-> {FALSE, TRUE},
   paths |-> {<<"/","a">>, <<"/","b">>},
   methods |-> {<<"G","E","T">>}]

InitFailure == InitWith(FailureInputs)
NextFailure == NextWith(FailureInputs)
SpecFailure == InitFailure /\ [][NextFailure]_vars

\* what a caller can observe of the router
RouterState == <<routes, defaultRouteObject, options>>

\* C27: a call that throws leaves the table, the default and both options as
\* they were; register() throws only the duplication error, setOption() and
\* setSeparator() only the empty-separator error, route() only the not-found
\* error.
C27_FailureChangesNothing ==
  [][last'.threw =>
       /\ RouterState' = RouterState
       /\ last'.op = "register" => last'.error = DuplicationError(last'.arg)
       /\ last'.op \in {"setOption", "setSeparator"} =>
            (last'.error = SeparatorError /\ last'.arg = <<>>)
       /\ last'.op = "route" => last'.error = NotFoundError]_vars

\* C27 (witness): register() has thrown on a router that holds a record, a
\* default and options other than the initial ones.
C27_Witness ==
  /\ last.op = "register"
  /\ last.threw
  /\ last.error = DuplicationError(<<"/","{","a","}","/","{","#","a","}">>)
  /\ Len(routes) = 1
  /\ defaultRouteObject = "dflt"
  /\ options = [caseSensitive |-> TRUE, separator |-> <<"-">>]

\* the two other failures, on a router that holds a record
RouteFailed == Routed /\ Res.threw /\ routes # <<>>
SeparatorRejected ==
  last.op \in {"setOption", "setSeparator"} /\ last.threw /\ routes # <<>>

-----------------------------------------------------------------------------
(* Further registrations *)

\* the step is a register() or registerDefault() call that returned
FurtherRegistration ==
  /\ last'.op \in {"register", "registerDefault"}
  /\ ~last'.threw
  /\ options' = options

\* the outcome of a request before and after the step
OutcomeBefore(path, method) == route(routes, defaultRouteObject, options, path, method)
OutcomeAfter(path, method) == route(routes', defaultRouteObject', options', path, method)

\* the outcome is a record
IsRecordOutcome(r) == ~r.threw /\ ~r.is_default

\* C28: a register() or registerDefault() call that returns changes the outcome
\* of no request whose outcome is a record without a {+name} placeholder: the
\* same record is returned, with the same params.
C28_PlainWinnersAreStable ==
  [][FurtherRegistration =>
       \A path \in Inputs.paths, method \in Inputs.methods :
         (IsRecordOutcome(OutcomeBefore(path, method))
            /\ ~HasGreedyPlaceholder(OutcomeBefore(path, method).route[1].pathPattern)) =>
           OutcomeAfter(path, method) = OutcomeBefore(path, method)]_vars

\* the same, for the outcomes that are a record the router does not defer (its
\* pattern does not contain "{+")
UndeferredWinnersAreStable ==
  [][FurtherRegistration =>
       \A path \in Inputs.paths, method \in Inputs.methods :
         (IsRecordOutcome(OutcomeBefore(path, method))
            /\ ~isProxyPattern(OutcomeBefore(path, method).route[1].pathPattern)) =>
           OutcomeAfter(path, method) = OutcomeBefore(path, method)]_vars

\* a request was answered by a literal record, and after a further
\* registration it is answered by the record registered last
LiteralWinnerReplaced ==
  /\ Routed
  /\ Len(routes) = 2
  /\ routes[1].pattern.isString
  /\ ~HasGreedyPlaceholder(routes[1].pathPattern)
  /\ IsRecordOutcome(route(<<routes[1]>>, defaultRouteObject, options, last.arg, last.method))
  /\ WinnerIs(2)
  /\ ~WinnerIs(1)

-----------------------------------------------------------------------------
(* The two editions of route() *)

EditionInputs ==
  [patterns |-> {<<"/","A">>, <<"/","{","x","}","/","{","#","n","}">>, <<"/","{","+","g","}">>},
   methodArgs |-> {One(<<"*">>), One(<<"g","e","t">>)},
   payloads |-> {"o1"},
   defaults |-> {"dflt"},
   separators |-> {<<"/">>},
   caseFlags |-> {FALSE},
   paths |-> {<<"/","a">>, <<"/","q","/","0","7">>},
   methods |-> {<<"G","e","t">>, <<"p","u","t">>}]

SpecEditions == InitWith(EditionInputs) /\ [][NextWith(EditionInputs)]_vars

\* the table as the earlier edition holds it after the same calls: its
\* register() computes the public fields as the later one does
EarlierTable == [i \in DOMAIN routes |-> earlierRecord(routes[i])]

\* C29: after any calls of the constructor, setOption, register and
\* registerDefault, a route() call has the same outcome in the edition that
\* precomputes the lower-cased literal, the integer flags by position, the
\* wildcard flag and the proxy flag as in the edition that derives them at the
\* request: the same record, params, path, method and is_default, or the same
\* failure.
C29_EditionsAgree ==
  Routed =>
    Res = routeEarlier(EarlierTable, defaultRouteObject, options, last.arg, last.method)

\* C29 (witness): a request is answered from the precomputed fields: a greedy
\* record registered for any method is passed over for a record registered
\* after it, whose second parameter is the integer one.
C29_Witness ==
  /\ Routed
  /\ Len(routes) = 2
  /\ routes[1].isProxy
  /\ routes[1].hasWildcardMethod
  /\ 1 \in EligibleMatches
  /\ routes[2].integerParams = <<FALSE, TRUE>>
  /\ ~routes[2].hasWildcardMethod
  /\ WinnerIs(2)
  /\ Res.params = <<[k |-> <<"x">>, v |-> StrVal(<<"q">>)], [k |-> <<"n">>, v |-> IntVal(7)]>>

\* a literal record answers, through its lower-cased text, a request whose
\* path differs from its pattern in letter case
AnsweredInLowerCase ==
  /\ Routed
  /\ ~Res.threw
  /\ ~Res.is_default
  /\ Res.route[1].pattern.isString
  /\ Res.route[1].pathPattern # Res.path

-----------------------------------------------------------------------------
(* Patterns that end with the separator *)

TrailingInputs ==
  [patterns |-> {<<"/","a","/">>, <<"/","{","x","}","/">>, <<"/","{","x","}">>},
   methodArgs |-> {One(<<"*">>)},
   payloads |-> {"o1"},
   defaults |-> {"dflt"},
   separators |-> {<<"/">>, <<"}">>},
   caseFlags |-> {FALSE},
   paths |-> {<<"/","a","/">>, <<"/","b","/","/">>, <<"/","b">>, <<"/","b","}">>},
   methods |-> {<<>>}]

SpecTrailing == InitWith(TrailingInputs) /\ [][NextWith(TrailingInputs)]_vars

NoLetters(s) ==
  \A k \in DOMAIN s : s[k] \notin Range(LowerChars) \cup Range(UpperChars)

\* the text of the record's pattern ends with the separator now in effect and
\* is longer than it
EndsWithSeparator(rec) ==
  /\ endsWith(rec.pathPattern, options.separator)
  /\ Len(rec.pathPattern) > Len(options.separator)

\* C30 (as claimed): while the separator has no letter, a record whose pattern
\* ends with the separator and is longer than it matches the path of no
\* request.
C30_TrailingSeparatorNeverMatched ==
  (Routed /\ NoLetters(options.separator)) =>
    \A i \in DOMAIN routes : EndsWithSeparator(routes[i]) => ~Matches(i)

\* C30 (amended): the same, while the separator has no letter and no "}", so
\* that the separator ending the pattern is text after its last placeholder.
C30_LiteralTrailingSeparatorNeverMatched ==
  (Routed /\ NoLetters(options.separator) /\ ~includes(options.separator, <<"}">>)) =>
    \A i \in DOMAIN routes :
      EndsWithSeparator(routes[i]) => (~Matches(i) /\ ~WinnerIs(i))

\* C30 (witness): the table holds '/a/' and '/{x}/', and a request for '/a/'
\* under the separator '/' gets the default.
C30_Witness ==
  /\ Routed
  /\ options.separator = <<"/">>
  /\ Len(routes) = 2
  /\ routes[1].pathPattern = <<"/","a","/">>
  /\ routes[2].pathPattern = <<"/","{","x","}","/">>
  /\ last.arg = <<"/","a","/">>
  /\ Res.path = <<"/","a">>
  /\ Res.is_default

\* under the separator "}" the record of '/{x}', whose text ends with it,
\* answers a request
PlaceholderEndIsSeparator ==
  /\ Routed
  /\ options.separator = <<"}">>
  /\ routes # <<>>
  /\ routes[1].pathPattern = <<"/","{","x","}">>
  /\ EndsWithSeparator(routes[1])
  /\ WinnerIs(1)

====
